---- MODULE Spec2Model ----
(***************************************************************************)
(* Perpustakaan-Digital: the loan lifecycle over the Firestore store.      *)
(*                                                                         *)
(* The store holds the `books` and `transactions` collections.  Devices    *)
(* (one signed-in user each) call the helpers of firestoreHelper:          *)
(* addBook, updateBook, deleteBook, borrowBook and returnBook.  Every      *)
(* store access of a helper (addDoc, updateDoc, deleteDoc, transaction.get *)
(* and the commit of runTransaction) is one step, so calls of different    *)
(* devices interleave between their awaits.                                *)
(*                                                                         *)
(* runTransaction is Firestore's optimistic transaction: the writes are    *)
(* buffered and sent together at commit, the commit applies them all if no *)
(* document the transaction has read was written since the read, and       *)
(* otherwise the update function is run again, up to a number of attempts. *)
(* An Error thrown by the update function rejects the call without a       *)
(* retry.  `stale` records, per pending transaction, that a document it    *)
(* has read was written since (the store compares update times).           *)
(*                                                                         *)
(* serverTimestamp() is the one value ServerTime: the claims distinguish a *)
(* date that is set from null, not two dates.                              *)
(*                                                                         *)
(* Left out: author, description, isbn and coverUrl of a book and the      *)
(* cover image upload, which no store transition reads.  Spec leaves out   *)
(* the title edit of handleSaveEdit: it writes the book document as a      *)
(* status toggle to the current status does, and changes no status.        *)
(***************************************************************************)
EXTENDS Integers, FiniteSets, Sequences, Bags, TLC

\* ---------------------------------------------------------------- bounds
MaxTx == 2           \* transaction documents ever created
MaxAttempts == 2     \* attempts of one runTransaction (Firestore's default is 5)
MaxChanges == 3      \* changes of the value passed to useDebounce
MaxFetches == 2      \* fetchTransactions calls of one screen pending at a time
MaxEvents == 3       \* auth-state changes and listener callbacks pending at a time

\* the ids the store generates for book documents, in the order it hands them out
BookIds == {1, 2}
TxIds == 1..MaxTx

\* ------------------------------------------------------- devices and users
\* Two devices call the helpers.  The helpers do not look at the role of the
\* caller (the screens do), so a device may issue any of them: sessions of an
\* admin and of a member follow one another on it.  ReturnBookScreen runs on
\* the devices of ReturnDevices, so under Spec two returnBook calls never
\* overlap, while borrowBook overlaps borrowBook, returnBook and every
\* single-write helper.
Devices == {"d1", "d2"}
ReturnDevices == {"d1"}

\* the User that borrowBook gets from the AuthContext of each device
DeviceUser ==
  [d \in Devices |->
     IF d = "d1" THEN [uid |-> "u1", name |-> "Ana"]
                 ELSE [uid |-> "u2", name |-> "Budi"]]

NewTitles == {"T1"}     \* titles typed into the add-book form
EditTitles == {"T2"}    \* titles typed into the edit drawer
Statuses == {"AVAILABLE", "BORROWED"}

\* ----------------------------------------------------------- error messages
Ok == "ok"
Pending == "pending"
ErrBookNotFound == "Buku tidak ditemukan."
ErrBorrowed == "Buku sedang dipinjam."
ErrTxNotFound == "Transaksi tidak ditemukan."
ErrReturned == "Buku sudah dikembalikan sebelumnya."
ErrAborted == "transaction aborted"
ErrUnavailable == "unavailable"
TransientFailures == {ErrAborted, ErrUnavailable}
ErrUpdate == "Gagal update buku. Silakan coba lagi."
ErrBorrowFallback == "Gagal meminjam buku. Silakan coba lagi."
ErrReturnFallback == "Gagal mengembalikan buku. Silakan coba lagi."
ErrNoProfile == "Profil pengguna tidak ditemukan. Silakan hubungi administrator."
ErrWrongPassword == "Password salah."
ErrUpdateProfile == "Gagal mengupdate profil. Silakan coba lagi."

\* ------------------------------------------------------------- documents
NoDoc == [exists |-> FALSE]
Null == "null"
ServerTime == "serverTimestamp"

NoArg == [bookId |-> 0, txId |-> 0]
NoTimer == -1
NoOrigin == <<>>

\* the accounts, and the document of collection `users` of each
Uids == {"u1", "u2"}
NoUser == [uid |-> Null, name |-> "", role |-> ""]     \* user of AuthContext is null
NoUpdate == [uid |-> Null, name |-> ""]                \* no updateProfile is running
AuthDevice == "d2"     \* the device whose AuthContext is followed
UserDocOf(u) ==
  [exists |-> TRUE, name |-> IF u = "u1" THEN "Ana" ELSE "Budi", role |-> "member"]

\* useDebounce: the values typed into the search box, and the delay in ticks
Inputs == {"", "a", "ab"}
Delay == 3
NoSnap == [book |-> NoDoc, tx |-> NoDoc]

\* the state of BookDetailScreen: the bookId of the route, the status of the
\* cached `book` ("": book is null), hasBorrowed, isBorrowing, and the Alert
\* it has shown last ("": none); NoScreen when the screen is not shown
NoScreen ==
  [bookId |-> 0, status |-> "", hasBorrowed |-> FALSE, isBorrowing |-> FALSE, alert |-> ""]
AlertUnavailable == "Buku ini sedang dipinjam."
AlertHasBorrowed == "Anda sudah meminjam buku ini."
AlertBorrowed == "Buku berhasil dipinjam!"

VARIABLES
  books,       \* collection `books`: BookIds -> BookDoc or NoDoc
  txs,         \* collection `transactions`: TxIds -> TransactionDoc or NoDoc
  nextBookId,  \* the next auto-generated book id
  nextTxId,    \* the next auto-generated transaction id
  pc,          \* per device: where its pending call stands
  arg,         \* per device: the arguments of its pending borrowBook/returnBook
  snap,        \* per device: the snapshots its transaction has read
  stale,       \* per device: a document its transaction has read was written since
  attempts,    \* per device: failed attempts of its runTransaction so far
  result,      \* per device: how its last call ended (Ok, the message thrown, Pending)
  retId,       \* per device: the id its last call returned (0: none)
  ui,          \* per device: the state of the BookDetailScreen it shows
  value,           \* useDebounce: the value passed in at the last render
  debouncedValue,  \* useDebounce: the state it returns
  timer,           \* useDebounce: per value captured, ticks until its timeout is due (NoTimer: none)
  stableFor,       \* ticks since value last changed, up to Delay (history)
  changes,         \* how many times value has changed (history)
  transactions,    \* ReturnBookScreen: ids of the transactions in its list
  processingId,    \* ReturnBookScreen: id of the row being processed (0: null)
  awaiting,        \* per call context: the row whose handleReturn awaits there (0: none)
  isLoading,       \* ReturnBookScreen: isLoading
  isRefreshing,    \* ReturnBookScreen: isRefreshing
  fetching,        \* ReturnBookScreen: fetchTransactions calls that have not settled
  origin,          \* the store and the calls a run of two calls has started from (history)
  user,            \* AuthContext of the member's device: user (Null or a User)
  authIsLoading,   \* AuthContext: isLoading
  session,         \* Firebase Auth: uid of auth.currentUser (Null: signed out)
  profiles,        \* collection `users`: Uids -> UserDoc or NoDoc
  events,          \* auth-state changes the listener has not been called for yet
  callbacks,       \* listener callbacks awaiting fetchUserProfile: bag of uids
  loginPc,         \* where the pending login call stands
  loginArg,        \* the uid of the account of the pending login call
  loginResult,     \* how the last login call ended
  updating,        \* the pending updateProfile: Null or [uid, name]
  updateResult     \* how the last updateProfile call ended

store == <<books, txs, nextBookId, nextTxId>>
loanState == <<store, pc, arg, snap, stale, attempts, result, retId, ui>>
debounce == <<value, debouncedValue, timer, stableFor, changes>>
returnScreen == <<transactions, processingId, awaiting, isLoading, isRefreshing, fetching>>
history == <<origin>>
authCtx == <<user, authIsLoading, session, profiles, events, callbacks,
             loginPc, loginArg, loginResult, updating, updateResult>>
local == <<debounce, returnScreen, history, authCtx>>
exceptDebounce == <<loanState, returnScreen, history, authCtx>>
exceptReturnScreen == <<debounce, history, authCtx>>
exceptAuth == <<debounce, returnScreen, history>>
vars == <<loanState, local>>

\* useDebounce not in use
DebounceAtRest ==
  /\ value = ""
  /\ debouncedValue = ""
  /\ timer = [v \in Inputs |-> NoTimer]
  /\ stableFor = 0
  /\ changes = 0

\* ReturnBookScreen not mounted: the initial values of its useState
ReturnScreenAtRest ==
  /\ transactions = {}
  /\ processingId = 0
  /\ awaiting = [c \in Devices |-> 0]
  /\ isLoading = TRUE
  /\ isRefreshing = FALSE
  /\ fetching = 0

\* no run of two calls is being compared
HistoryAtRest == origin = NoOrigin

\* The AuthContext is not looked at: the devices call the helpers with the
\* users of DeviceUser, whose profiles are in the store.
AuthAtRest ==
  /\ user = NoUser
  /\ authIsLoading = FALSE
  /\ session = Null
  /\ profiles = [u \in Uids |-> UserDocOf(u)]
  /\ events = <<>>
  /\ callbacks = EmptyBag
  /\ loginPc = "idle"
  /\ loginArg = Null
  /\ loginResult = Ok
  /\ updating = NoUpdate
  /\ updateResult = Ok

\* the hooks, contexts and list screens outside the loan flow, not in use
LocalAtRest == DebounceAtRest /\ ReturnScreenAtRest /\ HistoryAtRest /\ AuthAtRest

LoanAtRest ==
  /\ books = [b \in BookIds |-> NoDoc]
  /\ txs = [t \in TxIds |-> NoDoc]
  /\ nextBookId = 1
  /\ nextTxId = 1
  /\ pc = [d \in Devices |-> "idle"]
  /\ arg = [d \in Devices |-> NoArg]
  /\ snap = [d \in Devices |-> NoSnap]
  /\ stale = [d \in Devices |-> FALSE]
  /\ attempts = [d \in Devices |-> 0]
  /\ result = [d \in Devices |-> Ok]
  /\ retId = [d \in Devices |-> 0]
  /\ ui = [d \in Devices |-> NoScreen]

Init == LoanAtRest /\ LocalAtRest

\* where a pending borrowBook / returnBook stands
BorrowPcs == {"borrow_get", "borrow_commit"}
ReturnPcs == {"return_get", "return_getBook", "return_commit"}

\* the pending transaction of device d has read book b / transaction t
HasReadBook(d, b) ==
  \/ pc[d] = "borrow_commit" /\ arg[d].bookId = b
  \/ pc[d] = "return_commit" /\ snap[d].tx.bookId = b
HasReadTx(d, t) ==
  pc[d] \in {"return_getBook", "return_commit"} /\ arg[d].txId = t

\* a write of the documents bs and ts by device w outdates the reads that
\* the pending transactions of the other devices have made of them
Invalidate(w, bs, ts) ==
  stale' = [d \in Devices |->
              IF d = w THEN FALSE
              ELSE stale[d] \/ (\E b \in bs : HasReadBook(d, b))
                            \/ (\E t \in ts : HasReadTx(d, t))]

\* the call of device d ends: it resolves (r = Ok) with id i, or throws an
\* Error with message r
Finish(d, r, i) ==
  /\ pc' = [pc EXCEPT ![d] = "idle"]
  /\ arg' = [arg EXCEPT ![d] = NoArg]
  /\ snap' = [snap EXCEPT ![d] = NoSnap]
  /\ attempts' = [attempts EXCEPT ![d] = 0]
  /\ result' = [result EXCEPT ![d] = r]
  /\ retId' = [retId EXCEPT ![d] = i]
  /\ UNCHANGED <<ui, local>>

\* a device issues borrowBook or returnBook: the store is not touched yet
\* (what the screen does as it issues the call is said by the caller)
Call(d, p, a) ==
  /\ pc[d] = "idle"
  /\ pc' = [pc EXCEPT ![d] = p]
  /\ arg' = [arg EXCEPT ![d] = a]
  /\ result' = [result EXCEPT ![d] = Pending]
  /\ retId' = [retId EXCEPT ![d] = 0]
  /\ UNCHANGED <<store, snap, stale, attempts>>

\* ------------------------------------------------------------------ addBook
\* addDoc with status AVAILABLE; the id is generated by the store
\* variant: addBook that stores the new book as BORROWED
AddBook_AsBorrowed(d, t) ==
  /\ pc[d] = "idle"
  /\ nextBookId \in BookIds
  /\ books' = [books EXCEPT ![nextBookId] =
                 [exists |-> TRUE, title |-> t, status |-> "BORROWED",
                  createdAt |-> ServerTime, updatedAt |-> ServerTime]]
  /\ nextBookId' = nextBookId + 1
  /\ Finish(d, Ok, nextBookId)
  /\ Invalidate(d, {}, {})
  /\ UNCHANGED <<txs, nextTxId>>

AddBook(d, t) ==
  /\ pc[d] = "idle"
  /\ nextBookId \in BookIds
  /\ books' = [books EXCEPT ![nextBookId] =
                 [exists |-> TRUE, title |-> t, status |-> "AVAILABLE",
                  createdAt |-> ServerTime, updatedAt |-> ServerTime]]
  /\ nextBookId' = nextBookId + 1
  /\ Finish(d, Ok, nextBookId)
  /\ Invalidate(d, {}, {})
  /\ UNCHANGED <<txs, nextTxId>>

\* --------------------------------------------------------------- updateBook
\* updateDoc(bookRef, {...updates, updatedAt}): handleSaveEdit passes a title,
\* handleToggleStatus a status; "" stands for a field that is not in `updates`
ApplyUpdates(doc, t, s) ==
  [doc EXCEPT !.title = IF t # "" THEN t ELSE @,
              !.status = IF s # "" THEN s ELSE @,
              !.updatedAt = ServerTime]

\* variant: updateBook that also renames the book in its transactions
UpdateBook_RenamesEntries(d, b, t, s) ==
  /\ pc[d] = "idle"
  /\ IF books[b].exists
       THEN /\ books' = [books EXCEPT ![b] = ApplyUpdates(@, t, s)]
            /\ txs' = [x \in TxIds |->
                         IF txs[x].exists /\ txs[x].bookId = b /\ t # ""
                           THEN [txs[x] EXCEPT !.bookTitle = t] ELSE txs[x]]
            /\ Invalidate(d, {b}, {x \in TxIds : txs[x].exists /\ txs[x].bookId = b})
            /\ Finish(d, Ok, 0)
       ELSE /\ UNCHANGED <<books, txs>>
            /\ Invalidate(d, {}, {})
            /\ Finish(d, ErrUpdate, 0)
  /\ UNCHANGED <<nextBookId, nextTxId>>

\* updateDoc fails on a document that does not exist; updateBook rethrows
UpdateBook(d, b, t, s) ==
  /\ pc[d] = "idle"
  /\ IF books[b].exists
       THEN /\ books' = [books EXCEPT ![b] = ApplyUpdates(@, t, s)]
            /\ Invalidate(d, {b}, {})
            /\ Finish(d, Ok, 0)
       ELSE /\ UNCHANGED books
            /\ Invalidate(d, {}, {})
            /\ Finish(d, ErrUpdate, 0)
  /\ UNCHANGED <<txs, nextBookId, nextTxId>>

\* --------------------------------------------------------------- deleteBook
\* deleteDoc succeeds whether or not the document exists
\* variant: deleteBook that also deletes the transactions of the book
DeleteBook_Cascade(d, b) ==
  /\ pc[d] = "idle"
  /\ books' = [books EXCEPT ![b] = NoDoc]
  /\ txs' = [t \in TxIds |-> IF txs[t].exists /\ txs[t].bookId = b THEN NoDoc ELSE txs[t]]
  /\ Invalidate(d, IF books[b].exists THEN {b} ELSE {}, {})
  /\ Finish(d, Ok, 0)
  /\ UNCHANGED <<nextBookId, nextTxId>>

\* variant: deleteBook that marks the outstanding transactions of the book
\* as returned
DeleteBook_ReturnLoans(d, b) ==
  /\ pc[d] = "idle"
  /\ books' = [books EXCEPT ![b] = NoDoc]
  /\ txs' = [t \in TxIds |->
               IF txs[t].exists /\ txs[t].bookId = b /\ txs[t].status = "BORROWED"
                 THEN [txs[t] EXCEPT !.status = "RETURNED", !.returnDate = ServerTime]
                 ELSE txs[t]]
  /\ Invalidate(d, IF books[b].exists THEN {b} ELSE {},
                {t \in TxIds : txs[t].exists /\ txs[t].bookId = b /\ txs[t].status = "BORROWED"})
  /\ Finish(d, Ok, 0)
  /\ UNCHANGED <<nextBookId, nextTxId>>

DeleteBook(d, b) ==
  /\ pc[d] = "idle"
  /\ books' = [books EXCEPT ![b] = NoDoc]
  /\ Invalidate(d, IF books[b].exists THEN {b} ELSE {}, {})
  /\ Finish(d, Ok, 0)
  /\ UNCHANGED <<txs, nextBookId, nextTxId>>

\* ----------------------------------------------------------- runTransaction
\* variant: a catch that throws its own message whatever it has caught
Rethrow_Generic(message, fallback) == fallback

\* the catch of borrowBook and of returnBook:
\* throw new Error(error.message || fallback)
Rethrow(message, fallback) ==
  IF message # "" THEN message ELSE fallback

\* the update function threw, or the store gave up: the call is rejected with
\* the message r, nothing is written
Reject(d, r) ==
  /\ Finish(d, Rethrow(r, IF pc[d] \in BorrowPcs THEN ErrBorrowFallback
                                                ELSE ErrReturnFallback), 0)
  /\ stale' = [stale EXCEPT ![d] = FALSE]
  /\ UNCHANGED store

\* variant: the store applies the write to the book of the last attempt
\* although it rejects the transaction
RetryOrAbort_WritesApplied(d, first) ==
  IF attempts[d] + 1 >= MaxAttempts
    THEN /\ Finish(d, ErrAborted, 0)
         /\ stale' = [stale EXCEPT ![d] = FALSE]
         /\ LET b == IF pc[d] \in BorrowPcs THEN arg[d].bookId ELSE snap[d].tx.bookId
                s == IF pc[d] \in BorrowPcs THEN "BORROWED" ELSE "AVAILABLE"
            IN  books' = IF books[b].exists
                           THEN [books EXCEPT ![b].status = s]
                           ELSE books
         /\ UNCHANGED <<txs, nextBookId, nextTxId>>
    ELSE /\ pc' = [pc EXCEPT ![d] = first]
         /\ attempts' = [attempts EXCEPT ![d] = @ + 1]
         /\ snap' = [snap EXCEPT ![d] = NoSnap]
         /\ stale' = [stale EXCEPT ![d] = FALSE]
         /\ UNCHANGED <<store, arg, result, retId, ui, local>>

\* the commit found a document written since it was read: run the update
\* function again, or give up after MaxAttempts attempts
RetryOrAbort(d, first) ==
  IF attempts[d] + 1 >= MaxAttempts
    THEN Reject(d, ErrAborted)
    ELSE /\ pc' = [pc EXCEPT ![d] = first]
         /\ attempts' = [attempts EXCEPT ![d] = @ + 1]
         /\ snap' = [snap EXCEPT ![d] = NoSnap]
         /\ stale' = [stale EXCEPT ![d] = FALSE]
         /\ UNCHANGED <<store, arg, result, retId, ui, local>>

\* --------------------------------------------------------------- borrowBook
BorrowCall(d, b) ==
  /\ Call(d, "borrow_get", [NoArg EXCEPT !.bookId = b])
  /\ UNCHANGED <<ui, local>>

\* transaction.get(bookRef) and the two validations of the update function
\* user.name of the user handed to borrowBook: that of the auth context on
\* the device whose context is followed, that of DeviceUser elsewhere
UserName(d) ==
  IF d = AuthDevice /\ user # NoUser THEN user.name ELSE DeviceUser[d].name

\* variant: borrowBook without the check of the status it has read
BorrowGet_NoStatusCheck(d) ==
  /\ pc[d] = "borrow_get"
  /\ LET bookSnap == books[arg[d].bookId] IN
       IF ~bookSnap.exists
         THEN Reject(d, ErrBookNotFound)
         ELSE /\ pc' = [pc EXCEPT ![d] = "borrow_commit"]
              /\ snap' = [snap EXCEPT ![d].book = bookSnap]
              /\ UNCHANGED <<store, arg, stale, attempts, result, retId, ui, local>>

\* variant: borrowBook that reports a missing book as a borrowed one
BorrowGet_MissingAsBorrowed(d) ==
  /\ pc[d] = "borrow_get"
  /\ LET bookSnap == books[arg[d].bookId] IN
       IF ~bookSnap.exists \/ bookSnap.status = "BORROWED"
         THEN Reject(d, ErrBorrowed)
         ELSE /\ pc' = [pc EXCEPT ![d] = "borrow_commit"]
              /\ snap' = [snap EXCEPT ![d].book = bookSnap]
              /\ UNCHANGED <<store, arg, stale, attempts, result, retId, ui, local>>

\* variant: borrowBook that lends a book once only
BorrowGet_OncePerBook(d) ==
  /\ pc[d] = "borrow_get"
  /\ LET bookSnap == books[arg[d].bookId] IN
       IF ~bookSnap.exists
         THEN Reject(d, ErrBookNotFound)
         ELSE IF \/ bookSnap.status = "BORROWED"
                 \/ \E t \in TxIds : txs[t].exists /\ txs[t].bookId = arg[d].bookId
           THEN Reject(d, ErrBorrowed)
           ELSE /\ pc' = [pc EXCEPT ![d] = "borrow_commit"]
                /\ snap' = [snap EXCEPT ![d].book = bookSnap]
                /\ UNCHANGED <<store, arg, stale, attempts, result, retId, ui, local>>

\* variant: borrowBook that lends only while no book at all is on loan
BorrowGet_OneLoanAtATime(d) ==
  /\ pc[d] = "borrow_get"
  /\ LET bookSnap == books[arg[d].bookId] IN
       IF ~bookSnap.exists
         THEN Reject(d, ErrBookNotFound)
         ELSE IF \E b \in BookIds : books[b].exists /\ books[b].status = "BORROWED"
           THEN Reject(d, ErrBorrowed)
           ELSE /\ pc' = [pc EXCEPT ![d] = "borrow_commit"]
                /\ snap' = [snap EXCEPT ![d].book = bookSnap]
                /\ UNCHANGED <<store, arg, stale, attempts, result, retId, ui, local>>

BorrowGet(d) ==
  /\ pc[d] = "borrow_get"
  /\ LET bookSnap == books[arg[d].bookId] IN
       IF ~bookSnap.exists
         THEN Reject(d, ErrBookNotFound)
         ELSE IF bookSnap.status = "BORROWED"
           THEN Reject(d, ErrBorrowed)
           ELSE /\ pc' = [pc EXCEPT ![d] = "borrow_commit"]
                /\ snap' = [snap EXCEPT ![d].book = bookSnap]
                /\ UNCHANGED <<store, arg, stale, attempts, result, retId, ui, local>>

\* the write set of borrowBook: transaction.update(bookRef) and
\* transaction.set(transactionDocRef), applied together
\* variant: borrowBook that creates the transaction document and leaves the
\* status of the book as it is
BorrowWrites_NoBookUpdate(d, id) ==
  /\ books' = [books EXCEPT ![arg[d].bookId].updatedAt = ServerTime]
  /\ txs' = [txs EXCEPT ![id] =
               [exists |-> TRUE, bookId |-> arg[d].bookId, userId |-> DeviceUser[d].uid,
                borrowDate |-> ServerTime, returnDate |-> Null, status |-> "BORROWED",
                bookTitle |-> snap[d].book.title, userName |-> DeviceUser[d].name]]

BorrowWrites(d, id) ==
  /\ books' = [books EXCEPT ![arg[d].bookId].status = "BORROWED",
                            ![arg[d].bookId].updatedAt = ServerTime]
  /\ txs' = [txs EXCEPT ![id] =
               [exists |-> TRUE, bookId |-> arg[d].bookId, userId |-> DeviceUser[d].uid,
                borrowDate |-> ServerTime, returnDate |-> Null, status |-> "BORROWED",
                bookTitle |-> snap[d].book.title, userName |-> UserName(d)]]

\* variant: a commit that does not compare the documents read with the store
BorrowCommit_NoValidation(d) ==
  /\ pc[d] = "borrow_commit"
  /\ nextTxId <= MaxTx
  /\ BorrowWrites(d, nextTxId)
  /\ nextTxId' = nextTxId + 1
  /\ Invalidate(d, {arg[d].bookId}, {})
  /\ Finish(d, Ok, nextTxId)
  /\ UNCHANGED nextBookId

BorrowCommit(d) ==
  /\ pc[d] = "borrow_commit"
  /\ IF ~stale[d]
       THEN /\ nextTxId <= MaxTx
            /\ BorrowWrites(d, nextTxId)
            /\ nextTxId' = nextTxId + 1
            /\ Invalidate(d, {arg[d].bookId}, {})
            /\ Finish(d, Ok, nextTxId)
            /\ UNCHANGED nextBookId
       ELSE RetryOrAbort(d, "borrow_get")

\* --------------------------------------------------------------- returnBook
ReturnCall(d, t) ==
  /\ d \in ReturnDevices
  /\ Call(d, "return_get", [NoArg EXCEPT !.txId = t])
  /\ UNCHANGED <<ui, local>>

\* transaction.get(transactionRef) and the two validations
\* variant: returnBook without the check of the status it has read
ReturnGet_NoStatusCheck(d) ==
  /\ pc[d] = "return_get"
  /\ LET transactionSnap == txs[arg[d].txId] IN
       IF ~transactionSnap.exists
         THEN Reject(d, ErrTxNotFound)
         ELSE /\ pc' = [pc EXCEPT ![d] = "return_getBook"]
              /\ snap' = [snap EXCEPT ![d].tx = transactionSnap]
              /\ UNCHANGED <<store, arg, stale, attempts, result, retId, ui, local>>

ReturnGet(d) ==
  /\ pc[d] = "return_get"
  /\ LET transactionSnap == txs[arg[d].txId] IN
       IF ~transactionSnap.exists
         THEN Reject(d, ErrTxNotFound)
         ELSE IF transactionSnap.status = "RETURNED"
           THEN Reject(d, ErrReturned)
           ELSE /\ pc' = [pc EXCEPT ![d] = "return_getBook"]
                /\ snap' = [snap EXCEPT ![d].tx = transactionSnap]
                /\ UNCHANGED <<store, arg, stale, attempts, result, retId, ui, local>>

\* transaction.get(bookRef) of the book the transaction document names
\* variant: returnBook that also requires the book to be BORROWED
ReturnGetBook_RequireBorrowed(d) ==
  /\ pc[d] = "return_getBook"
  /\ LET bookSnap == books[snap[d].tx.bookId] IN
       IF ~bookSnap.exists \/ bookSnap.status # "BORROWED"
         THEN Reject(d, ErrBookNotFound)
         ELSE /\ pc' = [pc EXCEPT ![d] = "return_commit"]
              /\ snap' = [snap EXCEPT ![d].book = bookSnap]
              /\ UNCHANGED <<store, arg, stale, attempts, result, retId, ui, local>>

\* variant: returnBook that has written the transaction document when it
\* finds the book missing
ReturnGetBook_PartialWrite(d) ==
  /\ pc[d] = "return_getBook"
  /\ LET bookSnap == books[snap[d].tx.bookId] IN
       IF ~bookSnap.exists
         THEN /\ txs' = [txs EXCEPT ![arg[d].txId].status = "RETURNED",
                                    ![arg[d].txId].returnDate = ServerTime]
              /\ Finish(d, ErrBookNotFound, 0)
              /\ Invalidate(d, {}, {arg[d].txId})
              /\ UNCHANGED <<books, nextBookId, nextTxId>>
         ELSE /\ pc' = [pc EXCEPT ![d] = "return_commit"]
              /\ snap' = [snap EXCEPT ![d].book = bookSnap]
              /\ UNCHANGED <<store, arg, stale, attempts, result, retId, ui, local>>

\* variant: returnBook that treats a missing book as returned
ReturnGetBook_ForceReturn(d) ==
  /\ pc[d] = "return_getBook"
  /\ LET bookSnap == books[snap[d].tx.bookId] IN
       IF ~bookSnap.exists
         THEN /\ txs' = [txs EXCEPT ![arg[d].txId].status = "RETURNED",
                                    ![arg[d].txId].returnDate = ServerTime]
              /\ Finish(d, Ok, arg[d].txId)
              /\ Invalidate(d, {}, {arg[d].txId})
              /\ UNCHANGED <<books, nextBookId, nextTxId>>
         ELSE /\ pc' = [pc EXCEPT ![d] = "return_commit"]
              /\ snap' = [snap EXCEPT ![d].book = bookSnap]
              /\ UNCHANGED <<store, arg, stale, attempts, result, retId, ui, local>>

ReturnGetBook(d) ==
  /\ pc[d] = "return_getBook"
  /\ LET bookSnap == books[snap[d].tx.bookId] IN
       IF ~bookSnap.exists
         THEN Reject(d, ErrBookNotFound)
         ELSE /\ pc' = [pc EXCEPT ![d] = "return_commit"]
              /\ snap' = [snap EXCEPT ![d].book = bookSnap]
              /\ UNCHANGED <<store, arg, stale, attempts, result, retId, ui, local>>

\* the write set of returnBook: transaction.update(bookRef) and
\* transaction.update(transactionRef), applied together
\* variant: returnBook that writes the transaction document only
ReturnWrites_EntryOnly(d) ==
  /\ UNCHANGED books
  /\ txs' = [txs EXCEPT ![arg[d].txId].status = "RETURNED",
                        ![arg[d].txId].returnDate = ServerTime]

\* variant: returnBook that does not set returnDate
ReturnWrites_NoReturnDate(d) ==
  /\ books' = [books EXCEPT ![snap[d].tx.bookId].status = "AVAILABLE",
                            ![snap[d].tx.bookId].updatedAt = ServerTime]
  /\ txs' = [txs EXCEPT ![arg[d].txId].status = "RETURNED"]

ReturnWrites(d) ==
  /\ books' = [books EXCEPT ![snap[d].tx.bookId].status = "AVAILABLE",
                            ![snap[d].tx.bookId].updatedAt = ServerTime]
  /\ txs' = [txs EXCEPT ![arg[d].txId].status = "RETURNED",
                        ![arg[d].txId].returnDate = ServerTime]

\* variant: a commit that does not compare the documents read with the store
ReturnCommit_NoValidation(d) ==
  /\ pc[d] = "return_commit"
  /\ ReturnWrites(d)
  /\ Invalidate(d, {snap[d].tx.bookId}, {arg[d].txId})
  /\ Finish(d, Ok, arg[d].txId)
  /\ UNCHANGED <<nextBookId, nextTxId>>

ReturnCommit(d) ==
  /\ pc[d] = "return_commit"
  /\ IF ~stale[d]
       THEN /\ ReturnWrites(d)
            /\ Invalidate(d, {snap[d].tx.bookId}, {arg[d].txId})
            /\ Finish(d, Ok, arg[d].txId)
            /\ UNCHANGED <<nextBookId, nextTxId>>
       ELSE RetryOrAbort(d, "return_get")

\* ---------------------------------------------------------------------- Next
Next ==
  \E d \in Devices :
    \/ \E t \in NewTitles : AddBook(d, t)
    \/ \E b \in BookIds : \E s \in Statuses : UpdateBook(d, b, "", s)
    \/ \E b \in BookIds : DeleteBook(d, b)
    \/ \E b \in BookIds : BorrowCall(d, b)
    \/ BorrowGet(d)
    \/ BorrowCommit(d)
    \/ \E t \in TxIds : ReturnCall(d, t)
    \/ ReturnGet(d)
    \/ ReturnGetBook(d)
    \/ ReturnCommit(d)

Spec == Init /\ [][Next]_vars

\* ------------------------------------------------- two concurrent borrowBook
\* Both devices have called borrowBook for the same book b, which exists and is
\* AVAILABLE, and neither transaction has read anything yet.  The rest of the
\* store is any of the states the calls above leave behind: the other book is
\* absent, AVAILABLE or BORROWED, and book b has been lent and returned before
\* or not.  Only the two transactions run.
BookDocOf(t, s) ==
  [exists |-> TRUE, title |-> t, status |-> s,
   createdAt |-> ServerTime, updatedAt |-> ServerTime]

ReturnedDocOf(b, t, d) ==
  [exists |-> TRUE, bookId |-> b, userId |-> DeviceUser[d].uid,
   borrowDate |-> ServerTime, returnDate |-> ServerTime, status |-> "RETURNED",
   bookTitle |-> t, userName |-> DeviceUser[d].name]

InitRace ==
  \E b \in BookIds, t \in NewTitles \cup EditTitles :
    \E other \in {NoDoc} \cup {BookDocOf("T1", s) : s \in Statuses} :
      \E prior \in {NoDoc} \cup {ReturnedDocOf(b, t, d) : d \in Devices} :
        /\ books = [x \in BookIds |-> IF x = b THEN BookDocOf(t, "AVAILABLE") ELSE other]
        /\ txs = [x \in TxIds |-> IF x = 1 THEN prior ELSE NoDoc]
        /\ nextBookId = 3
        /\ nextTxId = IF prior.exists THEN 2 ELSE 1
        /\ pc = [d \in Devices |-> "borrow_get"]
        /\ arg = [d \in Devices |-> [NoArg EXCEPT !.bookId = b]]
        /\ snap = [d \in Devices |-> NoSnap]
        /\ stale = [d \in Devices |-> FALSE]
        /\ attempts = [d \in Devices |-> 0]
        /\ result = [d \in Devices |-> Pending]
        /\ retId = [d \in Devices |-> 0]
        /\ ui = [d \in Devices |-> NoScreen]
        /\ LocalAtRest

NextRace ==
  \E d \in Devices :
    \/ BorrowGet(d)
    \/ BorrowCommit(d)

SpecRace == InitRace /\ [][NextRace]_vars

\* ------------------------------------------------ borrow, return, borrow again
\* One member borrows an existing AVAILABLE book and, when the call has
\* returned, the transaction id it returned is handed to returnBook; when that
\* has returned, another member borrows the same book.  Each call starts when
\* the one before has ended, and nothing else runs.  The store starts as under
\* SpecRace.
InitRoundTrip ==
  \E b \in BookIds, t \in NewTitles \cup EditTitles :
    \E other \in {NoDoc} \cup {BookDocOf("T1", s) : s \in Statuses} :
      \E prior \in {NoDoc} \cup {ReturnedDocOf(b, t, d) : d \in Devices} :
        /\ books = [x \in BookIds |-> IF x = b THEN BookDocOf(t, "AVAILABLE") ELSE other]
        /\ txs = [x \in TxIds |-> IF x = 1 THEN prior ELSE NoDoc]
        /\ nextBookId = 3
        /\ nextTxId = IF prior.exists THEN 2 ELSE 1
        /\ pc = [d \in Devices |-> "idle"]
        /\ arg = [d \in Devices |-> NoArg]
        /\ snap = [d \in Devices |-> NoSnap]
        /\ stale = [d \in Devices |-> FALSE]
        /\ attempts = [d \in Devices |-> 0]
        /\ result = [d \in Devices |-> Ok]
        /\ retId = [d \in Devices |-> 0]
        /\ ui = [d \in Devices |-> NoScreen]
        /\ LocalAtRest

\* the first member has called nothing yet and borrows an AVAILABLE book
RTBorrow(d, b) ==
  /\ d = "d1"
  /\ result[d] = Ok
  /\ retId[d] = 0
  /\ books[b].exists
  /\ books[b].status = "AVAILABLE"
  /\ BorrowCall(d, b)

\* the transaction id that borrowBook has returned is handed to returnBook
RTReturn(d) ==
  /\ d = "d1"
  /\ pc[d] = "idle"
  /\ result[d] = Ok
  /\ retId[d] \in TxIds
  /\ txs[retId[d]].status = "BORROWED"
  /\ ReturnCall(d, retId[d])

\* the other member borrows the book that has been returned
RTBorrowAgain(d, b) ==
  /\ d = "d2"
  /\ result[d] = Ok
  /\ retId[d] = 0
  /\ pc["d1"] = "idle"
  /\ result["d1"] = Ok
  /\ retId["d1"] \in TxIds
  /\ txs[retId["d1"]].status = "RETURNED"
  /\ b = txs[retId["d1"]].bookId
  /\ BorrowCall(d, b)

NextRoundTrip ==
  \E d \in Devices :
    \/ \E b \in BookIds : RTBorrow(d, b)
    \/ BorrowGet(d)
    \/ BorrowCommit(d)
    \/ RTReturn(d)
    \/ ReturnGet(d)
    \/ ReturnGetBook(d)
    \/ ReturnCommit(d)
    \/ \E b \in BookIds : RTBorrowAgain(d, b)

SpecRoundTrip == InitRoundTrip /\ [][NextRoundTrip]_vars

\* ------------------------------------- concurrent borrowBook and returnBook
\* Each device has issued one call, a borrowBook of any book id or a returnBook
\* of any transaction id, and no transaction has read anything yet; only these
\* calls run.  The store is any state with at most one transaction document:
\* each book absent, AVAILABLE or BORROWED, and the first book never lent, on
\* loan, or lent and returned.
LoanDocOf(b, d, s) ==
  [exists |-> TRUE, bookId |-> b, userId |-> DeviceUser[d].uid,
   borrowDate |-> ServerTime, returnDate |-> IF s = "RETURNED" THEN ServerTime ELSE Null,
   status |-> s, bookTitle |-> "T1", userName |-> DeviceUser[d].name]

CallsInFlight ==
  {[pc |-> "borrow_get", arg |-> [NoArg EXCEPT !.bookId = b]] : b \in BookIds}
    \cup {[pc |-> "return_get", arg |-> [NoArg EXCEPT !.txId = t]] : t \in TxIds}

InitSer ==
  \E bs \in [BookIds -> {NoDoc} \cup {BookDocOf("T1", s) : s \in Statuses}] :
    \E first \in {NoDoc} \cup {LoanDocOf(1, "d1", s) : s \in {"BORROWED", "RETURNED"}} :
      \E calls \in [Devices -> CallsInFlight] :
        /\ books = bs
        /\ txs = [x \in TxIds |-> IF x = 1 THEN first ELSE NoDoc]
        /\ nextBookId = 3
        /\ nextTxId = IF first.exists THEN 2 ELSE 1
        /\ pc = [d \in Devices |-> calls[d].pc]
        /\ arg = [d \in Devices |-> calls[d].arg]
        /\ snap = [d \in Devices |-> NoSnap]
        /\ stale = [d \in Devices |-> FALSE]
        /\ attempts = [d \in Devices |-> 0]
        /\ result = [d \in Devices |-> Pending]
        /\ retId = [d \in Devices |-> 0]
        /\ ui = [d \in Devices |-> NoScreen]
        /\ LocalAtRest

NextSer ==
  \E d \in Devices :
    \/ BorrowGet(d)
    \/ BorrowCommit(d)
    \/ ReturnGet(d)
    \/ ReturnGetBook(d)
    \/ ReturnCommit(d)

SpecSer == InitSer /\ [][NextSer]_vars

\* ------------------------------------------- two calls on different books
\* borrowBook(b, user of d) run alone on the store st: what it returns or
\* throws, and the store it leaves
BorrowBookOn(st, d, b) ==
  IF ~st.books[b].exists
    THEN [st EXCEPT !.result[d] = ErrBookNotFound]
    ELSE IF st.books[b].status = "BORROWED"
      THEN [st EXCEPT !.result[d] = ErrBorrowed]
      ELSE [books |-> [st.books EXCEPT ![b].status = "BORROWED",
                                       ![b].updatedAt = ServerTime],
            txs |-> [st.txs EXCEPT ![st.nextTxId] =
                       [exists |-> TRUE, bookId |-> b, userId |-> DeviceUser[d].uid,
                        borrowDate |-> ServerTime, returnDate |-> Null,
                        status |-> "BORROWED", bookTitle |-> st.books[b].title,
                        userName |-> DeviceUser[d].name]],
            nextTxId |-> st.nextTxId + 1,
            result |-> [st.result EXCEPT ![d] = Ok]]

\* returnBook(t) run alone on the store st
ReturnBookOn(st, d, t) ==
  IF ~st.txs[t].exists
    THEN [st EXCEPT !.result[d] = ErrTxNotFound]
    ELSE IF st.txs[t].status = "RETURNED"
      THEN [st EXCEPT !.result[d] = ErrReturned]
      ELSE IF ~st.books[st.txs[t].bookId].exists
        THEN [st EXCEPT !.result[d] = ErrBookNotFound]
        ELSE [books |-> [st.books EXCEPT ![st.txs[t].bookId].status = "AVAILABLE",
                                         ![st.txs[t].bookId].updatedAt = ServerTime],
              txs |-> [st.txs EXCEPT ![t].status = "RETURNED",
                                     ![t].returnDate = ServerTime],
              nextTxId |-> st.nextTxId,
              result |-> [st.result EXCEPT ![d] = Ok]]

RunCall(st, d, call) ==
  IF call.kind = "borrow" THEN BorrowBookOn(st, d, call.id)
                          ELSE ReturnBookOn(st, d, call.id)

\* the calls of origin run one after the other, that of device a first
InOrder(o, a, b) ==
  RunCall(RunCall([books |-> o.books, txs |-> o.txs, nextTxId |-> o.nextTxId,
                   result |-> [d \in Devices |-> Pending]],
                  a, o.calls[a]),
          b, o.calls[b])

\* A store and the outcomes of the calls, without what the order of the
\* commits alone decides: the auto-generated ids of the entries (the
\* timestamps of the server are not modelled).
Canon(st) ==
  [books |-> st.books,
   entries |-> {st.txs[t] : t \in {x \in TxIds : st.txs[x].exists}},
   result |-> st.result]

\* the book each device works on
BookOf(d) == IF d = "d1" THEN 1 ELSE 2

\* Device d1 has a call on book 1 pending and device d2 a call on book 2:
\* borrowBook of the book, or returnBook of an entry of the book.  The books
\* and the entries are in any state.
InitIndep ==
  \E kind \in [Devices -> {"borrow", "return"}] :
    \E bs \in [BookIds -> {NoDoc} \cup {BookDocOf("T1", st) : st \in Statuses}] :
      \E es \in [Devices -> {"BORROWED", "RETURNED"}] :
        LET returning == {d \in Devices : kind[d] = "return"}
            txOf == [d \in Devices |->
                       IF d = "d1" \/ kind["d1"] = "borrow" THEN 1 ELSE 2]
            calls == [d \in Devices |->
                        [kind |-> kind[d],
                         id |-> IF kind[d] = "borrow" THEN BookOf(d) ELSE txOf[d]]]
            entries == [x \in TxIds |->
                          IF \E d \in returning : txOf[d] = x
                            THEN LET d == CHOOSE r \in returning : txOf[r] = x
                                 IN  LoanDocOf(BookOf(d), d, es[d])
                            ELSE NoDoc]
        IN  /\ \A d \in Devices : kind[d] = "borrow" => es[d] = "BORROWED"
            /\ books = bs
            /\ txs = entries
            /\ nextBookId = 3
            /\ nextTxId = Cardinality(returning) + 1
            /\ pc = [d \in Devices |-> IF kind[d] = "borrow" THEN "borrow_get"
                                                              ELSE "return_get"]
            /\ arg = [d \in Devices |->
                        IF kind[d] = "borrow" THEN [NoArg EXCEPT !.bookId = calls[d].id]
                                              ELSE [NoArg EXCEPT !.txId = calls[d].id]]
            /\ snap = [d \in Devices |-> NoSnap]
            /\ stale = [d \in Devices |-> FALSE]
            /\ attempts = [d \in Devices |-> 0]
            /\ result = [d \in Devices |-> Pending]
            /\ retId = [d \in Devices |-> 0]
            /\ ui = [d \in Devices |-> NoScreen]
            /\ DebounceAtRest
            /\ ReturnScreenAtRest
            /\ AuthAtRest
            /\ origin = [books |-> bs, txs |-> entries,
                         nextTxId |-> Cardinality(returning) + 1, calls |-> calls]

NextIndep ==
  \E d \in Devices :
    \/ BorrowGet(d)
    \/ BorrowCommit(d)
    \/ ReturnGet(d)
    \/ ReturnGetBook(d)
    \/ ReturnCommit(d)

SpecIndep == InitIndep /\ [][NextIndep]_vars

\* ---------------------------------------------------------- BookDetailScreen
\* fetchBook, run when the screen is mounted for the book b of the route:
\* getBookById, then setBook, or an Alert and goBack when there is no book
FetchBook(d, b) ==
  /\ UNCHANGED local
  /\ pc[d] = "idle"
  /\ ~ui[d].isBorrowing
  /\ IF books[b].exists
       THEN /\ ui' = [ui EXCEPT ![d] = [NoScreen EXCEPT !.bookId = b,
                                                        !.status = books[b].status]]
            /\ pc' = [pc EXCEPT ![d] = "fetch_hasBorrowed"]
       ELSE /\ ui' = [ui EXCEPT ![d] = [NoScreen EXCEPT !.alert = ErrBookNotFound]]
            /\ UNCHANGED pc
  /\ UNCHANGED <<store, arg, snap, stale, attempts, result, retId>>

\* hasUserBorrowedBook: the query for a BORROWED transaction of this user and
\* this book
HasUserBorrowedBook(userId, bookId) ==
  \E t \in TxIds :
    /\ txs[t].exists
    /\ txs[t].userId = userId
    /\ txs[t].bookId = bookId
    /\ txs[t].status = "BORROWED"

\* the second await of fetchBook: setHasBorrowed(borrowed)
FetchHasBorrowed(d) ==
  /\ UNCHANGED local
  /\ pc[d] = "fetch_hasBorrowed"
  /\ ui' = [ui EXCEPT ![d].hasBorrowed = HasUserBorrowedBook(DeviceUser[d].uid, ui[d].bookId)]
  /\ pc' = [pc EXCEPT ![d] = "idle"]
  /\ UNCHANGED <<store, arg, snap, stale, attempts, result, retId>>

\* handleBorrow up to its await: the two checks of the cached state, each
\* ending in an Alert, then setIsBorrowing(true) and borrowBook(bookId, user)
HandleBorrow(d) ==
  /\ UNCHANGED local
  /\ pc[d] = "idle"
  /\ ui[d].status # ""
  /\ ~ui[d].isBorrowing
  /\ IF ui[d].status = "BORROWED"
       THEN /\ ui' = [ui EXCEPT ![d].alert = AlertUnavailable]
            /\ UNCHANGED <<store, pc, arg, snap, stale, attempts, result, retId>>
       ELSE IF ui[d].hasBorrowed
         THEN /\ ui' = [ui EXCEPT ![d].alert = AlertHasBorrowed]
              /\ UNCHANGED <<store, pc, arg, snap, stale, attempts, result, retId>>
         ELSE /\ ui' = [ui EXCEPT ![d].isBorrowing = TRUE, ![d].alert = ""]
              /\ Call(d, "borrow_get", [NoArg EXCEPT !.bookId = ui[d].bookId])

\* handleBorrow after its await: setBook and setHasBorrowed and the Alert of
\* success, or the Alert of the message caught; then setIsBorrowing(false)
HandleBorrowSettled(d) ==
  /\ UNCHANGED local
  /\ pc[d] = "idle"
  /\ ui[d].isBorrowing
  /\ ui' = [ui EXCEPT ![d] =
              IF result[d] = Ok
                THEN [@ EXCEPT !.status = "BORROWED", !.hasBorrowed = TRUE,
                               !.isBorrowing = FALSE, !.alert = AlertBorrowed]
                ELSE [@ EXCEPT !.isBorrowing = FALSE, !.alert = result[d]]]
  /\ UNCHANGED <<store, pc, arg, snap, stale, attempts, result, retId>>

\* handleReturn of ReturnBookScreen up to its await, for a row of its list (a
\* transaction that getBorrowedTransactions has found), on a device whose
\* BookDetailScreen has no call pending: that screen is not shown any more
HandleReturn(d, t) ==
  /\ UNCHANGED local
  /\ d \in ReturnDevices
  /\ ~ui[d].isBorrowing
  /\ txs[t].exists
  /\ ui' = [ui EXCEPT ![d] = NoScreen]
  /\ Call(d, "return_get", [NoArg EXCEPT !.txId = t])

\* Two books are in the store, AVAILABLE and never lent.  The devices open
\* BookDetailScreen and press Pinjam, and the loans are returned on
\* ReturnBookScreen.
InitUI ==
  /\ books = [b \in BookIds |-> BookDocOf("T1", "AVAILABLE")]
  /\ txs = [t \in TxIds |-> NoDoc]
  /\ nextBookId = 3
  /\ nextTxId = 1
  /\ pc = [d \in Devices |-> "idle"]
  /\ arg = [d \in Devices |-> NoArg]
  /\ snap = [d \in Devices |-> NoSnap]
  /\ stale = [d \in Devices |-> FALSE]
  /\ attempts = [d \in Devices |-> 0]
  /\ result = [d \in Devices |-> Ok]
  /\ retId = [d \in Devices |-> 0]
  /\ ui = [d \in Devices |-> NoScreen]
  /\ LocalAtRest

NextUI ==
  \E d \in Devices :
    \/ \E b \in BookIds : FetchBook(d, b)
    \/ FetchHasBorrowed(d)
    \/ HandleBorrow(d)
    \/ BorrowGet(d)
    \/ BorrowCommit(d)
    \/ HandleBorrowSettled(d)
    \/ \E t \in TxIds : HandleReturn(d, t)
    \/ ReturnGet(d)
    \/ ReturnGetBook(d)
    \/ ReturnCommit(d)

SpecUI == InitUI /\ [][NextUI]_vars

\* ------------------------------------------- the status toggle of the admin
\* getDocs of hasUserBorrowedBook rejects (no connection, no permission): its
\* catch returns false and fetchBook sets hasBorrowed to it
FetchHasBorrowedFails(d) ==
  /\ UNCHANGED local
  /\ pc[d] = "fetch_hasBorrowed"
  /\ ui' = [ui EXCEPT ![d].hasBorrowed = FALSE]
  /\ pc' = [pc EXCEPT ![d] = "idle"]
  /\ UNCHANGED <<store, arg, snap, stale, attempts, result, retId>>

\* the status handleToggleStatus asks for: the opposite of the cached one
ToggledStatus(status) ==
  IF status = "AVAILABLE" THEN "BORROWED" ELSE "AVAILABLE"

\* handleToggleStatus of BookDetailScreen, on a device where an admin is
\* signed in: updateBook(bookId, {status: newStatus}) and, when it resolves,
\* setBook with the new status; when it rejects, the Alert of its message.
\* updateBook is one updateDoc of the book document.
\* variant: a toggle that writes the opposite of the status in the store
HandleToggleStatus_FromStore(d) ==
  /\ UNCHANGED local
  /\ d \in ReturnDevices
  /\ pc[d] = "idle"
  /\ ui[d].status # ""
  /\ ~ui[d].isBorrowing
  /\ LET b == ui[d].bookId
         newStatus == ToggledStatus(books[b].status)
     IN  IF books[b].exists
           THEN /\ books' = [books EXCEPT ![b] = ApplyUpdates(@, "", newStatus)]
                /\ Invalidate(d, {b}, {})
                /\ ui' = [ui EXCEPT ![d].status = newStatus, ![d].alert = ""]
                /\ result' = [result EXCEPT ![d] = Ok]
           ELSE /\ UNCHANGED books
                /\ Invalidate(d, {}, {})
                /\ ui' = [ui EXCEPT ![d].alert = ErrUpdate]
                /\ result' = [result EXCEPT ![d] = ErrUpdate]
  /\ retId' = [retId EXCEPT ![d] = 0]
  /\ UNCHANGED <<txs, nextBookId, nextTxId, pc, arg, snap, attempts>>

HandleToggleStatus(d) ==
  /\ UNCHANGED local
  /\ d \in ReturnDevices
  /\ pc[d] = "idle"
  /\ ui[d].status # ""
  /\ ~ui[d].isBorrowing
  /\ LET b == ui[d].bookId
         newStatus == ToggledStatus(ui[d].status)
     IN  IF books[b].exists
           THEN /\ books' = [books EXCEPT ![b] = ApplyUpdates(@, "", newStatus)]
                /\ Invalidate(d, {b}, {})
                /\ ui' = [ui EXCEPT ![d].status = newStatus, ![d].alert = ""]
                /\ result' = [result EXCEPT ![d] = Ok]
           ELSE /\ UNCHANGED books
                /\ Invalidate(d, {}, {})
                /\ ui' = [ui EXCEPT ![d].alert = ErrUpdate]
                /\ result' = [result EXCEPT ![d] = ErrUpdate]
  /\ retId' = [retId EXCEPT ![d] = 0]
  /\ UNCHANGED <<txs, nextBookId, nextTxId, pc, arg, snap, attempts>>

\* fetchBook of BookDetailScreen where an admin is signed in: isMember is
\* false, hasUserBorrowedBook is not called
AdminFetchBook(d, b) ==
  /\ UNCHANGED local
  /\ d \in ReturnDevices
  /\ pc[d] = "idle"
  /\ ui' = [ui EXCEPT ![d] =
              IF books[b].exists
                THEN [NoScreen EXCEPT !.bookId = b, !.status = books[b].status]
                ELSE [NoScreen EXCEPT !.alert = ErrBookNotFound]]
  /\ UNCHANGED <<store, pc, arg, snap, stale, attempts, result, retId>>

\* An admin is signed in on the devices of ReturnDevices: BookDetailScreen
\* shows the toggle there, and ReturnBookScreen returns the loans.  Members
\* are signed in on the other devices: BookDetailScreen shows Pinjam, and
\* hasUserBorrowedBook may fail.
NextToggle ==
  \/ \E d \in ReturnDevices :
       \/ \E b \in BookIds : AdminFetchBook(d, b)
       \/ HandleToggleStatus(d)
       \/ \E t \in TxIds : HandleReturn(d, t)
       \/ ReturnGet(d)
       \/ ReturnGetBook(d)
       \/ ReturnCommit(d)
  \/ \E d \in Devices \ ReturnDevices :
       \/ \E b \in BookIds : FetchBook(d, b)
       \/ FetchHasBorrowed(d)
       \/ FetchHasBorrowedFails(d)
       \/ HandleBorrow(d)
       \/ BorrowGet(d)
       \/ BorrowCommit(d)
       \/ HandleBorrowSettled(d)

SpecToggle == InitUI /\ [][NextToggle]_vars

\* ------------------------------------------------- a call that has failed
\* The commit request does not reach the store, or the store does not answer:
\* runTransaction rejects with the error of the SDK and the catch of
\* borrowBook or returnBook throws its message
CommitFails(d) ==
  /\ pc[d] \in {"borrow_commit", "return_commit"}
  /\ Reject(d, ErrUnavailable)

\* Pinjam pressed again on the Alert of a call that failed at its commit
RetryBorrow(d) ==
  /\ result[d] \in TransientFailures
  /\ ui[d].alert = result[d]
  /\ HandleBorrow(d)

\* Kembalikan pressed again on the row whose call failed at its commit
RetryReturn(d, t) ==
  /\ result[d] \in TransientFailures
  /\ ui[d] = NoScreen
  /\ HandleReturn(d, t)

\* Device d1 is in the last attempt of a borrowBook of book b pressed on
\* BookDetailScreen, or of a returnBook of entry 1 (a loan of b), and is about
\* to commit; a document it has read was written since, and the store is in
\* any state such a write leaves.  No other device acts.
InitRetry ==
  \E b \in BookIds :
    \E now \in {NoDoc} \cup {BookDocOf(t, s) : t \in NewTitles \cup EditTitles, s \in Statuses} :
      \E other \in {NoDoc} \cup {BookDocOf("T1", s) : s \in Statuses} :
        \E who \in Devices :
          \E loan \in {NoDoc} \cup {LoanDocOf(b, who, s) : s \in {"BORROWED", "RETURNED"}} :
            \E call \in {"borrow_commit", "return_commit"} :
              /\ call = "return_commit" => loan.exists
              /\ books = [x \in BookIds |-> IF x = b THEN now ELSE other]
              /\ txs = [x \in TxIds |-> IF x = 1 THEN loan ELSE NoDoc]
              /\ nextBookId = 3
              /\ nextTxId = IF loan.exists THEN 2 ELSE 1
              /\ pc = [d \in Devices |-> IF d = "d1" THEN call ELSE "idle"]
              /\ arg = [d \in Devices |->
                          IF d # "d1" THEN NoArg
                          ELSE IF call = "borrow_commit"
                            THEN [NoArg EXCEPT !.bookId = b]
                            ELSE [NoArg EXCEPT !.txId = 1]]
              /\ snap = [d \in Devices |->
                           IF d # "d1" THEN NoSnap
                           ELSE IF call = "borrow_commit"
                             THEN [NoSnap EXCEPT !.book = BookDocOf("T1", "AVAILABLE")]
                             ELSE [book |-> BookDocOf("T1", "BORROWED"),
                                   tx |-> LoanDocOf(b, who, "BORROWED")]]
              /\ stale = [d \in Devices |-> d = "d1"]
              /\ attempts = [d \in Devices |-> IF d = "d1" THEN MaxAttempts - 1 ELSE 0]
              /\ result = [d \in Devices |-> IF d = "d1" THEN Pending ELSE Ok]
              /\ retId = [d \in Devices |-> 0]
              /\ ui = [d \in Devices |->
                         IF d = "d1" /\ call = "borrow_commit"
                           THEN [NoScreen EXCEPT !.bookId = b, !.status = "AVAILABLE",
                                                 !.isBorrowing = TRUE]
                           ELSE NoScreen]
              /\ LocalAtRest

NextRetry ==
  \E d \in Devices :
    \/ BorrowCommit(d)
    \/ ReturnCommit(d)
    \/ CommitFails(d)
    \/ HandleBorrowSettled(d)
    \/ RetryBorrow(d)
    \/ \E t \in TxIds : RetryReturn(d, t)
    \/ BorrowGet(d)
    \/ ReturnGet(d)
    \/ ReturnGetBook(d)

SpecRetry == InitRetry /\ [][NextRetry]_vars

\* ------------------------------------------------------------- useDebounce
\* variant: an effect without cleanup, the timeout of the value replaced
\* stays pending
SetValue_NoClearTimeout(v) ==
  /\ v # value
  /\ changes < MaxChanges
  /\ value' = v
  /\ timer' = [timer EXCEPT ![v] = Delay]
  /\ stableFor' = 0
  /\ changes' = changes + 1
  /\ UNCHANGED <<debouncedValue, exceptDebounce>>

\* A render with another value: the effect depends on [value, delay], so its
\* cleanup runs, clearTimeout(timer), and the effect runs again,
\* setTimeout(() => setDebouncedValue(value), delay).
SetValue(v) ==
  /\ v # value
  /\ changes < MaxChanges
  /\ value' = v
  /\ timer' = [x \in Inputs |-> IF x = v THEN Delay ELSE NoTimer]
  /\ stableFor' = 0
  /\ changes' = changes + 1
  /\ UNCHANGED <<debouncedValue, exceptDebounce>>

\* one tick of time passes
Tick ==
  /\ stableFor < Delay \/ \E v \in Inputs : timer[v] > 0
  /\ timer' = [v \in Inputs |-> IF timer[v] > 0 THEN timer[v] - 1 ELSE timer[v]]
  /\ stableFor' = IF stableFor < Delay THEN stableFor + 1 ELSE stableFor
  /\ UNCHANGED <<value, debouncedValue, changes, exceptDebounce>>

\* the callback of a timeout that is due: setDebouncedValue of the value its
\* closure holds.  A timeout runs when it is due or later.
TimerFires(v) ==
  /\ timer[v] = 0
  /\ debouncedValue' = v
  /\ timer' = [timer EXCEPT ![v] = NoTimer]
  /\ UNCHANGED <<value, stableFor, changes, exceptDebounce>>

\* the first render: useState(value), and the effect sets its timeout
InitDebounce ==
  /\ LoanAtRest
  /\ \E v \in Inputs :
       /\ value = v
       /\ debouncedValue = v
       /\ timer = [x \in Inputs |-> IF x = v THEN Delay ELSE NoTimer]
  /\ stableFor = 0
  /\ changes = 0
  /\ ReturnScreenAtRest
  /\ HistoryAtRest
  /\ AuthAtRest

NextDebounce ==
  \/ \E v \in Inputs : SetValue(v)
  \/ Tick
  \/ \E v \in Inputs : TimerFires(v)

SpecDebounce == InitDebounce /\ [][NextDebounce]_vars

\* time passes, and a timeout that is due runs
FairSpecDebounce ==
  /\ SpecDebounce
  /\ WF_vars(Tick)
  /\ WF_vars(\E v \in Inputs : TimerFires(v))

\* -------------------------------------------------------- ReturnBookScreen
\* what getBorrowedTransactions finds: the entries with status BORROWED
BorrowedTransactions ==
  {t \in TxIds : txs[t].exists /\ txs[t].status = "BORROWED"}

\* the screen gets the focus: useFocusEffect calls fetchTransactions(), which
\* sets isLoading and awaits getBorrowedTransactions
FocusFetch ==
  /\ fetching < MaxFetches
  /\ isLoading' = TRUE
  /\ fetching' = fetching + 1
  /\ UNCHANGED <<transactions, processingId, awaiting, isRefreshing>>
  /\ UNCHANGED <<loanState, exceptReturnScreen>>

\* pull to refresh: handleRefresh sets isRefreshing and calls
\* fetchTransactions(false)
HandleRefresh ==
  /\ ~(isLoading /\ ~isRefreshing)
  /\ fetching < MaxFetches
  /\ isRefreshing' = TRUE
  /\ fetching' = fetching + 1
  /\ UNCHANGED <<transactions, processingId, awaiting, isLoading>>
  /\ UNCHANGED <<loanState, exceptReturnScreen>>

\* variant: a finally that resets one of the two flags only
FetchResolves_OwnFlagOnly ==
  /\ fetching > 0
  /\ transactions' = BorrowedTransactions
  /\ \/ isLoading' = FALSE /\ UNCHANGED isRefreshing
     \/ isRefreshing' = FALSE /\ UNCHANGED isLoading
  /\ fetching' = fetching - 1
  /\ UNCHANGED <<processingId, awaiting>>
  /\ UNCHANGED <<loanState, exceptReturnScreen>>

\* a fetchTransactions call resolves: setTransactions of what the query has
\* found, then the finally: setIsLoading(false), setIsRefreshing(false)
FetchResolves ==
  /\ fetching > 0
  /\ transactions' = BorrowedTransactions
  /\ isLoading' = FALSE
  /\ isRefreshing' = FALSE
  /\ fetching' = fetching - 1
  /\ UNCHANGED <<processingId, awaiting>>
  /\ UNCHANGED <<loanState, exceptReturnScreen>>

\* getBorrowedTransactions throws: the Alert of the catch, then the finally
FetchRejects ==
  /\ fetching > 0
  /\ isLoading' = FALSE
  /\ isRefreshing' = FALSE
  /\ fetching' = fetching - 1
  /\ UNCHANGED <<transactions, processingId, awaiting>>
  /\ UNCHANGED <<loanState, exceptReturnScreen>>

\* Konfirmasi pressed in the dialog of handleReturn for row t, the call
\* running in context c: setProcessingId(t), then await returnBook(t).  The
\* button of a row is disabled only while processingId is its id.
ConfirmReturn(c, t) ==
  /\ ~(isLoading /\ ~isRefreshing)
  /\ t \in transactions
  /\ processingId # t
  /\ awaiting[c] = 0
  /\ ~ui[c].isBorrowing
  /\ processingId' = t
  /\ awaiting' = [awaiting EXCEPT ![c] = t]
  /\ Call(c, "return_get", [NoArg EXCEPT !.txId = t])
  /\ UNCHANGED <<ui, transactions, isLoading, isRefreshing, fetching, exceptReturnScreen>>

\* variant: the row is taken off the list whether returnBook has resolved
\* or thrown
ReturnSettled_AlwaysRemoves(c) ==
  /\ pc[c] = "idle"
  /\ awaiting[c] # 0
  /\ transactions' = transactions \ {awaiting[c]}
  /\ processingId' = 0
  /\ awaiting' = [awaiting EXCEPT ![c] = 0]
  /\ UNCHANGED <<isLoading, isRefreshing, fetching>>
  /\ UNCHANGED <<loanState, exceptReturnScreen>>

\* handleReturn after its await: when returnBook has resolved, the row is
\* filtered out of transactions; when it has thrown, the Alert of the catch;
\* then the finally, setProcessingId(null)
ReturnSettled(c) ==
  /\ pc[c] = "idle"
  /\ awaiting[c] # 0
  /\ transactions' = IF result[c] = Ok THEN transactions \ {awaiting[c]}
                                        ELSE transactions
  /\ processingId' = 0
  /\ awaiting' = [awaiting EXCEPT ![c] = 0]
  /\ UNCHANGED <<isLoading, isRefreshing, fetching>>
  /\ UNCHANGED <<loanState, exceptReturnScreen>>

\* An admin has ReturnBookScreen open on the device of ReturnDevices and a
\* member has BookDetailScreen on the other one.  Their views may be out of
\* date: the store is in any state other devices may have left since the
\* list and the book were fetched.
InitScreens ==
  \E bs \in [BookIds -> {NoDoc} \cup {BookDocOf("T1", st) : st \in Statuses}] :
    \E first \in {NoDoc} \cup {LoanDocOf(1, "d2", st) : st \in {"BORROWED", "RETURNED"}} :
      \E shown \in SUBSET {1} :
        \E screen \in {NoScreen} \cup
                       {[NoScreen EXCEPT !.bookId = 1, !.status = st, !.hasBorrowed = h] :
                          st \in Statuses, h \in BOOLEAN} :
          /\ shown # {} => first.exists
          /\ books = bs
          /\ txs = [x \in TxIds |-> IF x = 1 THEN first ELSE NoDoc]
          /\ nextBookId = 3
          /\ nextTxId = IF first.exists THEN 2 ELSE 1
          /\ pc = [d \in Devices |-> "idle"]
          /\ arg = [d \in Devices |-> NoArg]
          /\ snap = [d \in Devices |-> NoSnap]
          /\ stale = [d \in Devices |-> FALSE]
          /\ attempts = [d \in Devices |-> 0]
          /\ result = [d \in Devices |-> Ok]
          /\ retId = [d \in Devices |-> 0]
          /\ ui = [d \in Devices |-> IF d \in ReturnDevices THEN NoScreen ELSE screen]
          /\ DebounceAtRest
          /\ transactions = shown
          /\ processingId = 0
          /\ awaiting = [c \in Devices |-> 0]
          /\ isLoading = FALSE
          /\ isRefreshing = FALSE
          /\ fetching = 0
          /\ HistoryAtRest
          /\ AuthAtRest

NextScreens ==
  \/ FocusFetch
  \/ HandleRefresh
  \/ FetchResolves
  \/ FetchRejects
  \/ \E c \in ReturnDevices :
       \/ \E t \in TxIds : ConfirmReturn(c, t)
       \/ ReturnGet(c)
       \/ ReturnGetBook(c)
       \/ ReturnCommit(c)
       \/ ReturnSettled(c)
  \/ \E d \in Devices \ ReturnDevices :
       \/ \E b \in BookIds : FetchBook(d, b)
       \/ FetchHasBorrowed(d)
       \/ HandleBorrow(d)
       \/ BorrowGet(d)
       \/ BorrowCommit(d)
       \/ HandleBorrowSettled(d)

SpecScreens == InitScreens /\ [][NextScreens]_vars

\* ReturnBookScreen of one device, just mounted, with two loans in the store.
\* The JavaScript runtime of the device runs the returnBook calls that the
\* screen has started side by side: here both call contexts of Devices are
\* calls of that one screen.
InitReturnScreen ==
  /\ books = [b \in BookIds |-> BookDocOf("T1", "BORROWED")]
  /\ txs = [x \in TxIds |->
              IF x = 1 THEN LoanDocOf(1, "d1", "BORROWED")
              ELSE IF x = 2 THEN LoanDocOf(2, "d2", "BORROWED")
              ELSE NoDoc]
  /\ nextBookId = 3
  /\ nextTxId = 3
  /\ pc = [d \in Devices |-> "idle"]
  /\ arg = [d \in Devices |-> NoArg]
  /\ snap = [d \in Devices |-> NoSnap]
  /\ stale = [d \in Devices |-> FALSE]
  /\ attempts = [d \in Devices |-> 0]
  /\ result = [d \in Devices |-> Ok]
  /\ retId = [d \in Devices |-> 0]
  /\ ui = [d \in Devices |-> NoScreen]
  /\ DebounceAtRest
  /\ transactions = {}
  /\ processingId = 0
  /\ awaiting = [c \in Devices |-> 0]
  /\ isLoading = TRUE
  /\ isRefreshing = FALSE
  /\ fetching = 1
  /\ HistoryAtRest
  /\ AuthAtRest

NextReturnScreen ==
  \/ FocusFetch
  \/ HandleRefresh
  \/ FetchResolves
  \/ FetchRejects
  \/ \E c \in Devices :
       \/ \E t \in TxIds : ConfirmReturn(c, t)
       \/ ReturnGet(c)
       \/ ReturnGetBook(c)
       \/ ReturnCommit(c)
       \/ ReturnSettled(c)

SpecReturnScreen == InitReturnScreen /\ [][NextReturnScreen]_vars

\* The promise of getBorrowedTransactions settles: a pending fetchTransactions
\* call resolves or rejects in the end, and its finally runs.  BookListScreen
\* (fetchBooks), MyHistoryScreen (fetchTransactions) and AdminDashboardScreen
\* (fetchDashboardData) set and reset their two flags with the same
\* statements; the guard of MyHistoryScreen on user.uid holds while that
\* screen is mounted, AppNavigator mounts it for an authenticated user only.
FairSpecReturnScreen ==
  SpecReturnScreen /\ WF_vars(FetchResolves \/ FetchRejects)

\* ------------------------------------------------------------- AuthContext
\* names typed into the edit form of ProfileScreen
NewNames == {"Budi S."}

\* fetchUserProfile when getDoc answers: the User made of the document, or
\* null when there is no document
FetchUserProfile(u) ==
  IF profiles[u].exists
    THEN [uid |-> u, name |-> profiles[u].name, role |-> profiles[u].role]
    ELSE NoUser

\* what fetchUserProfile may return: its catch returns null when getDoc throws
FetchedProfiles(u) == {FetchUserProfile(u), NoUser}

PendingAuthWork == Len(events) + BagCardinality(callbacks)

\* login pressed on LoginScreen, which AppNavigator shows while isLoading is
\* false and nobody is authenticated: setIsLoading(true), then
\* await signInWithEmailAndPassword
Login(u) ==
  /\ loginPc = "idle"
  /\ ~authIsLoading
  /\ user = NoUser
  /\ PendingAuthWork + 2 <= MaxEvents
  /\ authIsLoading' = TRUE
  /\ loginPc' = "signIn"
  /\ loginArg' = u
  /\ loginResult' = Pending
  /\ UNCHANGED <<user, session, profiles, events, callbacks, updating, updateResult>>
  /\ UNCHANGED <<loanState, exceptAuth>>

\* signInWithEmailAndPassword resolves: the session is that of the account,
\* Firebase Auth notifies the listener; login awaits fetchUserProfile
LoginSignedIn ==
  /\ loginPc = "signIn"
  /\ session' = loginArg
  /\ events' = Append(events, loginArg)
  /\ loginPc' = "fetchProfile"
  /\ UNCHANGED <<user, authIsLoading, profiles, callbacks, loginArg, loginResult,
                 updating, updateResult>>
  /\ UNCHANGED <<loanState, exceptAuth>>

\* signInWithEmailAndPassword rejects: the catch throws the translated
\* message, the finally sets isLoading to false
LoginRefused ==
  /\ loginPc = "signIn"
  /\ loginResult' = ErrWrongPassword
  /\ authIsLoading' = FALSE
  /\ loginPc' = "idle"
  /\ UNCHANGED <<user, session, profiles, events, callbacks, loginArg,
                 updating, updateResult>>
  /\ UNCHANGED <<loanState, exceptAuth>>

\* fetchUserProfile of login resolves: with a profile, setUser and the
\* finally; with null, login awaits signOut
LoginProfileFetched ==
  /\ loginPc = "fetchProfile"
  /\ \E profile \in FetchedProfiles(loginArg) :
       IF profile = NoUser
         THEN /\ loginPc' = "signOut"
              /\ UNCHANGED <<user, authIsLoading, loginResult>>
         ELSE /\ user' = profile
              /\ authIsLoading' = FALSE
              /\ loginResult' = Ok
              /\ loginPc' = "idle"
  /\ UNCHANGED <<session, profiles, events, callbacks, loginArg, updating, updateResult>>
  /\ UNCHANGED <<loanState, exceptAuth>>

\* variant: a login that throws without signing out
LoginSignOut_KeepsSession ==
  /\ loginPc = "signOut"
  /\ loginPc' = "throw"
  /\ UNCHANGED <<user, authIsLoading, session, profiles, events, callbacks, loginArg,
                 loginResult, updating, updateResult>>
  /\ UNCHANGED <<loanState, exceptAuth>>

\* signOut(auth) of login takes effect: nobody is signed in, Firebase Auth
\* notifies the listener
LoginSignOut ==
  /\ loginPc = "signOut"
  /\ session' = Null
  /\ events' = Append(events, Null)
  /\ loginPc' = "throw"
  /\ UNCHANGED <<user, authIsLoading, profiles, callbacks, loginArg, loginResult,
                 updating, updateResult>>
  /\ UNCHANGED <<loanState, exceptAuth>>

\* login after await signOut: throw new Error('Profil pengguna tidak
\* ditemukan...'), which the catch throws again with its message; the finally
\* sets isLoading to false
LoginThrows ==
  /\ loginPc = "throw"
  /\ loginResult' = ErrNoProfile
  /\ authIsLoading' = FALSE
  /\ loginPc' = "idle"
  /\ UNCHANGED <<user, session, profiles, events, callbacks, loginArg,
                 updating, updateResult>>
  /\ UNCHANGED <<loanState, exceptAuth>>

\* Firebase Auth calls the listener of onAuthStateChanged for the next change:
\* setIsLoading(true); signed out: setUser(null) and setIsLoading(false);
\* signed in: the callback awaits fetchUserProfile
ListenerCalled ==
  /\ events # <<>>
  /\ events' = Tail(events)
  /\ IF Head(events) = Null
       THEN /\ user' = NoUser
            /\ authIsLoading' = FALSE
            /\ UNCHANGED callbacks
       ELSE /\ authIsLoading' = TRUE
            /\ callbacks' = callbacks (+) SetToBag({Head(events)})
            /\ UNCHANGED user
  /\ UNCHANGED <<session, profiles, loginPc, loginArg, loginResult, updating, updateResult>>
  /\ UNCHANGED <<loanState, exceptAuth>>

\* fetchUserProfile of a listener callback resolves: setUser(userProfile),
\* setIsLoading(false)
ListenerProfileFetched(u) ==
  /\ BagIn(u, callbacks)
  /\ callbacks' = callbacks (-) SetToBag({u})
  /\ \E profile \in FetchedProfiles(u) : user' = profile
  /\ authIsLoading' = FALSE
  /\ UNCHANGED <<session, profiles, events, loginPc, loginArg, loginResult,
                 updating, updateResult>>
  /\ UNCHANGED <<loanState, exceptAuth>>

\* variant: an updateProfile that shows the loading screen while it runs
UpdateProfile_SetsLoading(name) ==
  /\ updating = NoUpdate
  /\ ~authIsLoading
  /\ authIsLoading' = TRUE
  /\ IF user = NoUser
       THEN updateResult' = ErrUpdateProfile /\ UNCHANGED updating
       ELSE /\ updating' = [uid |-> user.uid, name |-> name]
            /\ updateResult' = Pending
  /\ UNCHANGED <<user, session, profiles, events, callbacks,
                 loginPc, loginArg, loginResult>>
  /\ UNCHANGED <<loanState, exceptAuth>>

\* updateProfile(name) up to its await: without a user it throws, which its
\* catch turns into 'Gagal mengupdate profil...'; else updateDoc of users/uid
UpdateProfile(name) ==
  /\ updating = NoUpdate
  /\ ~authIsLoading
  /\ IF user = NoUser
       THEN updateResult' = ErrUpdateProfile /\ UNCHANGED updating
       ELSE /\ updating' = [uid |-> user.uid, name |-> name]
            /\ updateResult' = Pending
  /\ UNCHANGED <<user, authIsLoading, session, profiles, events, callbacks,
                 loginPc, loginArg, loginResult>>
  /\ UNCHANGED <<loanState, exceptAuth>>

\* updateDoc resolves, setUser(prev => prev ? {...prev, name} : null); or it
\* rejects because the document is not there, and the catch throws
UpdateProfileResolves ==
  /\ updating # NoUpdate
  /\ IF profiles[updating.uid].exists
       THEN /\ profiles' = [profiles EXCEPT ![updating.uid].name = updating.name]
            /\ user' = IF user = NoUser THEN NoUser ELSE [user EXCEPT !.name = updating.name]
            /\ updateResult' = Ok
       ELSE /\ updateResult' = ErrUpdateProfile
            /\ UNCHANGED <<profiles, user>>
  /\ updating' = NoUpdate
  /\ UNCHANGED <<authIsLoading, session, events, callbacks, loginPc, loginArg, loginResult>>
  /\ UNCHANGED <<loanState, exceptAuth>>

\* updateDoc rejects (no connection): the catch throws
UpdateProfileRejects ==
  /\ updating # NoUpdate
  /\ updateResult' = ErrUpdateProfile
  /\ updating' = NoUpdate
  /\ UNCHANGED <<user, authIsLoading, session, profiles, events, callbacks,
                 loginPc, loginArg, loginResult>>
  /\ UNCHANGED <<loanState, exceptAuth>>

\* The app starts: useState(null), useState(true), and onAuthStateChanged
\* calls the listener for the session the device has kept, that of u2 or
\* none.  The account u1 has no document in `users`.
InitAuth ==
  /\ LoanAtRest
  /\ DebounceAtRest
  /\ ReturnScreenAtRest
  /\ HistoryAtRest
  /\ user = NoUser
  /\ authIsLoading = TRUE
  /\ session \in {Null, "u2"}
  /\ profiles = [u \in Uids |-> IF u = "u1" THEN NoDoc ELSE UserDocOf(u)]
  /\ events = <<session>>
  /\ callbacks = EmptyBag
  /\ loginPc = "idle"
  /\ loginArg = Null
  /\ loginResult = Ok
  /\ updating = NoUpdate
  /\ updateResult = Ok

NextAuth ==
  \/ \E u \in Uids : Login(u)
  \/ LoginSignedIn
  \/ LoginRefused
  \/ LoginProfileFetched
  \/ LoginSignOut
  \/ LoginThrows
  \/ ListenerCalled
  \/ \E u \in Uids : ListenerProfileFetched(u)
  \/ \E n \in NewNames : UpdateProfile(n)
  \/ UpdateProfileResolves
  \/ UpdateProfileRejects

SpecAuth == InitAuth /\ [][NextAuth]_vars

\* The app has started on a device that has kept no session, and the
\* accounts that sign in are those without a document in `users`: u1, and u2
\* when its document is not there either.
InitLogin ==
  /\ LoanAtRest
  /\ DebounceAtRest
  /\ ReturnScreenAtRest
  /\ HistoryAtRest
  /\ user = NoUser
  /\ authIsLoading = TRUE
  /\ session = Null
  /\ profiles \in {[u \in Uids |-> IF u \in missing THEN NoDoc ELSE UserDocOf(u)] :
                     missing \in {{"u1"}, Uids}}
  /\ events = <<session>>
  /\ callbacks = EmptyBag
  /\ loginPc = "idle"
  /\ loginArg = Null
  /\ loginResult = Ok
  /\ updating = NoUpdate
  /\ updateResult = Ok

NextLogin ==
  \/ \E u \in {x \in Uids : ~profiles[x].exists} : Login(u)
  \/ LoginSignedIn
  \/ LoginRefused
  \/ LoginProfileFetched
  \/ LoginSignOut
  \/ LoginThrows
  \/ ListenerCalled
  \/ \E u \in Uids : ListenerProfileFetched(u)

SpecLogin == InitLogin /\ [][NextLogin]_vars

\* ---------------------------------------- titles and names that change later
\* Two books in the catalogue; the member u2 is signed in on AuthDevice, the
\* admin works on the other device.
InitDrift ==
  /\ books = [b \in BookIds |-> BookDocOf("T1", "AVAILABLE")]
  /\ txs = [t \in TxIds |-> NoDoc]
  /\ nextBookId = 3
  /\ nextTxId = 1
  /\ pc = [d \in Devices |-> "idle"]
  /\ arg = [d \in Devices |-> NoArg]
  /\ snap = [d \in Devices |-> NoSnap]
  /\ stale = [d \in Devices |-> FALSE]
  /\ attempts = [d \in Devices |-> 0]
  /\ result = [d \in Devices |-> Ok]
  /\ retId = [d \in Devices |-> 0]
  /\ ui = [d \in Devices |-> NoScreen]
  /\ DebounceAtRest
  /\ ReturnScreenAtRest
  /\ HistoryAtRest
  /\ profiles = [u \in Uids |-> UserDocOf(u)]
  /\ user = FetchUserProfile(DeviceUser[AuthDevice].uid)
  /\ authIsLoading = FALSE
  /\ session = DeviceUser[AuthDevice].uid
  /\ events = <<>>
  /\ callbacks = EmptyBag
  /\ loginPc = "idle"
  /\ loginArg = Null
  /\ loginResult = Ok
  /\ updating = NoUpdate
  /\ updateResult = Ok

\* The member borrows, the admin edits titles and records returns, the member
\* edits the name of the profile.  borrowBook is given the user of the context
\* when it is called, so updateDoc of the profile settles between two calls
\* of borrowBook here, not inside one.
NextDrift ==
  \/ \E b \in BookIds : BorrowCall(AuthDevice, b)
  \/ BorrowGet(AuthDevice)
  \/ BorrowCommit(AuthDevice)
  \/ \E d \in ReturnDevices :
       \/ \E b \in BookIds, t \in EditTitles : UpdateBook(d, b, t, "")
       \/ \E t \in TxIds : ReturnCall(d, t)
       \/ ReturnGet(d)
       \/ ReturnGetBook(d)
       \/ ReturnCommit(d)
  \/ \E n \in NewNames : UpdateProfile(n)
  \/ pc[AuthDevice] = "idle" /\ UpdateProfileResolves
  \/ UpdateProfileRejects

SpecDrift == InitDrift /\ [][NextDrift]_vars

\* ===================================================================
\* Properties
\* ===================================================================

\* the outstanding loans of book b: its LoanEntries with status BORROWED
Outstanding(b) ==
  {t \in TxIds : txs[t].exists /\ txs[t].bookId = b /\ txs[t].status = "BORROWED"}

\* device d takes a step of its pending borrowBook / returnBook
Steps(d) == pc[d] # "idle" /\ pc'[d] # pc[d]
Ends(d) == pc[d] # "idle" /\ pc'[d] = "idle"

\* C1: in every reachable state each book is referenced by at most one
\* LoanEntry whose status is BORROWED.
\* Violated: borrowBook(1) by d1, updateBook(1, {status: AVAILABLE}) (the admin
\* toggle), borrowBook(1) by d2 leaves two BORROWED entries of book 1.
C1_AtMostOneOutstanding ==
  \A b \in BookIds : Cardinality(Outstanding(b)) <= 1

\* C2: when two borrowBook calls for the same existing AVAILABLE book run
\* concurrently, the two never both succeed, and once both have ended exactly
\* one has succeeded, with the id of a BORROWED LoanEntry of its user, and the
\* other has failed with 'Buku sedang dipinjam.' (Conflict); exactly one
\* LoanEntry has been created.
C2_ExactlyOneBorrowSucceeds ==
  /\ ~(\A d \in Devices : result[d] = Ok)
  /\ \A d \in Devices : result[d] \in {Pending, Ok, ErrBorrowed}
  /\ (\A d \in Devices : pc[d] = "idle") =>
       \E w \in Devices : \E l \in Devices \ {w} :
         /\ result[w] = Ok
         /\ retId[w] \in TxIds
         /\ txs[retId[w]].exists
         /\ txs[retId[w]].status = "BORROWED"
         /\ txs[retId[w]].userId = DeviceUser[w].uid
         /\ books[txs[retId[w]].bookId].status = "BORROWED"
         /\ Outstanding(txs[retId[w]].bookId) = {retId[w]}
         /\ nextTxId = retId[w] + 1
         /\ result[l] = ErrBorrowed
         /\ retId[l] = 0

\* the two transactions overlapped: both had read the book AVAILABLE, one has
\* committed, and the other was refused at its commit and is in its second
\* attempt
C2_Witness ==
  \E w \in Devices : \E l \in Devices \ {w} :
    result[w] = Ok /\ pc[l] = "borrow_get" /\ attempts[l] = 1

\* C3: in every reachable state and for every existing book, the status of the
\* book is BORROWED if and only if exactly one LoanEntry that references the
\* book has status BORROWED.
\* Violated: addBook, then updateBook(1, {status: BORROWED}) (the admin toggle)
\* leaves book 1 BORROWED with no LoanEntry at all.
C3_StatusIffOneOutstanding ==
  \A b \in BookIds :
    books[b].exists =>
      (books[b].status = "BORROWED" <=> Cardinality(Outstanding(b)) = 1)

\* the writes that the transaction of device d has buffered, applied together
BorrowApplied(d) ==
  LET b == arg[d].bookId
      id == retId'[d]
  IN /\ id \in TxIds
     /\ ~txs[id].exists
     /\ books' = [books EXCEPT ![b].status = "BORROWED", ![b].updatedAt = ServerTime]
     /\ txs' = [txs EXCEPT ![id] =
                  [exists |-> TRUE, bookId |-> b, userId |-> DeviceUser[d].uid,
                   borrowDate |-> ServerTime, returnDate |-> Null, status |-> "BORROWED",
                   bookTitle |-> books[b].title, userName |-> DeviceUser[d].name]]

ReturnApplied(d) ==
  LET t == arg[d].txId
      b == txs[t].bookId
  IN /\ books' = [books EXCEPT ![b].status = "AVAILABLE", ![b].updatedAt = ServerTime]
     /\ txs' = [txs EXCEPT ![t].status = "RETURNED", ![t].returnDate = ServerTime]

\* C4: every step of a borrowBook or of a returnBook either leaves both
\* collections as they are, or applies both writes of the operation in that one
\* step and the operation succeeds; an operation that ends in an error has
\* applied neither write.
C4_WritesTogetherOrNotAtAll ==
  [][\A d \in Devices :
       Steps(d) =>
         /\ \/ UNCHANGED <<books, txs>>
            \/ pc[d] = "borrow_commit" /\ result'[d] = Ok /\ BorrowApplied(d)
            \/ pc[d] = "return_commit" /\ result'[d] = Ok /\ ReturnApplied(d)
         /\ (Ends(d) /\ result'[d] # Ok) => UNCHANGED <<books, txs>>
         /\ (Ends(d) /\ result'[d] = Ok) => (txs' # txs)]_vars

\* a returnBook has applied its two writes, and an operation has failed
C4_Witness ==
  /\ \E t \in TxIds :
       /\ txs[t].exists
       /\ txs[t].status = "RETURNED"
       /\ books[txs[t].bookId].exists
       /\ books[txs[t].bookId].status = "AVAILABLE"
  /\ \E d \in Devices : result[d] \in {ErrBorrowed, ErrReturned, ErrAborted}

\* C5: a returnBook on a LoanEntry whose status is RETURNED ends at its first
\* read with 'Buku sudah dikembalikan sebelumnya.' (Conflict), and neither the
\* call nor the read changes any book or any LoanEntry.
C5_ReturnOfReturnedRejected ==
  [][\A d \in Devices :
       /\ (pc[d] = "idle" /\ pc'[d] = "return_get") => UNCHANGED <<books, txs>>
       /\ ( /\ pc[d] = "return_get"
            /\ pc'[d] # pc[d]
            /\ txs[arg[d].txId].exists
            /\ txs[arg[d].txId].status = "RETURNED" ) =>
              /\ pc'[d] = "idle"
              /\ result'[d] = ErrReturned
              /\ UNCHANGED <<books, txs>>]_vars

\* a returnBook was rejected as already returned, and the entry it named is
\* RETURNED with its returnDate
C5_Witness ==
  \E d \in Devices :
    /\ result[d] = ErrReturned
    /\ \E t \in TxIds : txs[t].exists /\ txs[t].status = "RETURNED"

\* C6: in every reachable state every LoanEntry has a non-null returnDate if
\* and only if its status is RETURNED.
C6_ReturnDateIffReturned ==
  \A t \in TxIds :
    txs[t].exists => (txs[t].returnDate # Null <=> txs[t].status = "RETURNED")

\* one entry is RETURNED with a date while another one is BORROWED without
C6_Witness ==
  \E t, u \in TxIds :
    /\ txs[t].exists /\ txs[t].status = "RETURNED" /\ txs[t].returnDate = ServerTime
    /\ txs[u].exists /\ txs[u].status = "BORROWED" /\ txs[u].returnDate = Null

\* C7: a LoanEntry comes into existence only in the commit of a borrowBook
\* that succeeds and returns its id; an existing entry is never deleted; an
\* entry changes only in the commit of a returnBook of that entry that
\* succeeds, from BORROWED to RETURNED with a returnDate, all other fields
\* staying as they are.  So a RETURNED entry never changes again, and bookId,
\* userId and borrowDate never change.
C7_EntryLifecycle ==
  [][\A t \in TxIds :
       /\ txs[t].exists => txs'[t].exists
       /\ (~txs[t].exists /\ txs'[t].exists) =>
            \E d \in Devices :
              /\ pc[d] = "borrow_commit"
              /\ pc'[d] = "idle"
              /\ result'[d] = Ok
              /\ retId'[d] = t
              /\ txs'[t].status = "BORROWED"
       /\ (txs[t].exists /\ txs'[t] # txs[t]) =>
            /\ txs[t].status = "BORROWED"
            /\ txs'[t] = [txs[t] EXCEPT !.status = "RETURNED", !.returnDate = ServerTime]
            /\ \E d \in Devices :
                 /\ pc[d] = "return_commit"
                 /\ arg[d].txId = t
                 /\ pc'[d] = "idle"
                 /\ result'[d] = Ok]_vars

\* an entry has been returned and its book has been deleted since
C7_Witness ==
  \E t \in TxIds :
    /\ txs[t].exists
    /\ txs[t].status = "RETURNED"
    /\ ~books[txs[t].bookId].exists

\* C8: a borrowBook whose read finds the book existing and AVAILABLE is not
\* rejected by the update function, and its commit, when the store accepts it
\* (no document it has read was written since), succeeds on a book that exists
\* and is AVAILABLE: it sets the status of that book to BORROWED, creates
\* exactly one LoanEntry with that bookId, userId = user.uid, status BORROWED
\* and returnDate null under an id that no entry had before, returns that id,
\* and changes no other book and no other entry.  A commit the store does not
\* accept writes nothing: the update function runs again or the call ends with
\* the store's error.
C8_BorrowAvailableSucceeds ==
  [][\A d \in Devices :
       /\ ( /\ pc[d] = "borrow_get"
            /\ pc'[d] # pc[d]
            /\ books[arg[d].bookId].exists
            /\ books[arg[d].bookId].status = "AVAILABLE" ) =>
              /\ pc'[d] = "borrow_commit"
              /\ UNCHANGED store
       /\ (pc[d] = "borrow_commit" /\ pc'[d] # pc[d]) =>
            IF ~stale[d]
              THEN /\ books[arg[d].bookId].exists
                   /\ books[arg[d].bookId].status = "AVAILABLE"
                   /\ pc'[d] = "idle"
                   /\ result'[d] = Ok
                   /\ BorrowApplied(d)
                   /\ {t \in TxIds : txs'[t].exists} =
                        {t \in TxIds : txs[t].exists} \cup {retId'[d]}
                   /\ \A t \in TxIds : txs[t].exists => retId'[d] # t
                   /\ nextBookId' = nextBookId
              ELSE /\ UNCHANGED store
                   /\ \/ pc'[d] = "borrow_get"
                      \/ pc'[d] = "idle" /\ result'[d] = ErrAborted]_vars

\* a borrowBook has succeeded while an earlier entry existed: its user holds
\* the new entry, the second one, and the book is BORROWED
C8_Witness ==
  \E d \in Devices :
    /\ result[d] = Ok
    /\ retId[d] = 2
    /\ txs[1].exists
    /\ txs[2].exists
    /\ txs[2].userId = DeviceUser[d].uid
    /\ txs[2].status = "BORROWED"
    /\ txs[2].returnDate = Null
    /\ books[txs[2].bookId].exists
    /\ books[txs[2].bookId].status = "BORROWED"

\* C9: a returnBook whose reads find the LoanEntry existing with status
\* BORROWED and the book it references existing is not rejected by the update
\* function, whatever the status of the book, and its commit, when the store
\* accepts it, succeeds: it sets the status of the referenced book to
\* AVAILABLE and the entry to RETURNED with a non-null returnDate, and changes
\* no other book and no other entry.
C9_ReturnBorrowedSucceeds ==
  [][\A d \in Devices :
       /\ ( /\ pc[d] = "return_get"
            /\ pc'[d] # pc[d]
            /\ txs[arg[d].txId].exists
            /\ txs[arg[d].txId].status = "BORROWED" ) =>
              /\ pc'[d] = "return_getBook"
              /\ UNCHANGED store
       /\ ( /\ pc[d] = "return_getBook"
            /\ pc'[d] # pc[d]
            /\ books[snap[d].tx.bookId].exists ) =>
              /\ pc'[d] = "return_commit"
              /\ UNCHANGED store
       /\ (pc[d] = "return_commit" /\ pc'[d] # pc[d]) =>
            IF ~stale[d]
              THEN /\ txs[arg[d].txId].exists
                   /\ txs[arg[d].txId].status = "BORROWED"
                   /\ books[txs[arg[d].txId].bookId].exists
                   /\ pc'[d] = "idle"
                   /\ result'[d] = Ok
                   /\ retId'[d] = arg[d].txId
                   /\ ReturnApplied(d)
                   /\ txs'[arg[d].txId].returnDate # Null
                   /\ UNCHANGED <<nextBookId, nextTxId>>
              ELSE /\ UNCHANGED store
                   /\ \/ pc'[d] = "return_get"
                      \/ pc'[d] = "idle" /\ result'[d] = ErrAborted]_vars

\* a returnBook has succeeded on the second entry while the first one is
\* still BORROWED: the first one was left alone
C9_Witness ==
  \E d \in ReturnDevices :
    /\ result[d] = Ok
    /\ retId[d] = 2
    /\ txs[2].exists
    /\ txs[2].status = "RETURNED"
    /\ txs[2].returnDate # Null
    /\ books[txs[2].bookId].exists
    /\ books[txs[2].bookId].status = "AVAILABLE"
    /\ txs[1].exists
    /\ txs[1].status = "BORROWED"

\* C10: a borrowBook whose read finds the book existing and BORROWED ends at
\* that read with 'Buku sedang dipinjam.' (Conflict); the call and the read
\* leave every book and every LoanEntry unchanged and create no LoanEntry.
C10_BorrowOfBorrowedRejected ==
  [][\A d \in Devices :
       /\ (pc[d] = "idle" /\ pc'[d] = "borrow_get") => UNCHANGED store
       /\ ( /\ pc[d] = "borrow_get"
            /\ pc'[d] # pc[d]
            /\ books[arg[d].bookId].exists
            /\ books[arg[d].bookId].status = "BORROWED" ) =>
              /\ pc'[d] = "idle"
              /\ result'[d] = ErrBorrowed
              /\ retId'[d] = 0
              /\ UNCHANGED store]_vars

\* a borrowBook was rejected as already borrowed: the
\* book is BORROWED under the one entry that the other user holds
C10_Witness ==
  \E d \in Devices : \E b \in BookIds :
    /\ result[d] = ErrBorrowed
    /\ books[b].exists
    /\ books[b].status = "BORROWED"
    /\ \E t \in TxIds : Outstanding(b) = {t} /\ txs[t].userId # DeviceUser[d].uid

\* C11: a borrowBook whose read finds no book under its bookId ends at that
\* read with 'Buku tidak ditemukan.', and a returnBook whose read finds no
\* LoanEntry under its id ends at that read with 'Transaksi tidak ditemukan.'
\* (NotFound); neither returns an id, and neither the call nor the read writes
\* anything: no book and no LoanEntry is created or modified.
C11_MissingDocumentNotFound ==
  [][\A d \in Devices :
       /\ (pc[d] = "idle" /\ pc'[d] \in {"borrow_get", "return_get"}) => UNCHANGED store
       /\ ( /\ pc[d] = "borrow_get"
            /\ pc'[d] # pc[d]
            /\ ~books[arg[d].bookId].exists ) =>
              /\ pc'[d] = "idle"
              /\ result'[d] = ErrBookNotFound
              /\ retId'[d] = 0
              /\ UNCHANGED store
       /\ ( /\ pc[d] = "return_get"
            /\ pc'[d] # pc[d]
            /\ ~txs[arg[d].txId].exists ) =>
              /\ pc'[d] = "idle"
              /\ result'[d] = ErrTxNotFound
              /\ retId'[d] = 0
              /\ UNCHANGED store]_vars

\* a returnBook has found no LoanEntry and a borrowBook has found no book,
\* while nothing at all is in the store
C11_Witness ==
  /\ \E d \in Devices : result[d] = ErrTxNotFound
  /\ \E d \in Devices : result[d] = ErrBookNotFound
  /\ \A b \in BookIds : ~books[b].exists
  /\ \A t \in TxIds : ~txs[t].exists

\* C12: a returnBook that has read its LoanEntry with status BORROWED and then
\* finds the referenced book missing ends with 'Buku tidak ditemukan.'
\* (NotFound) and writes nothing: the entry is as it was, BORROWED with
\* returnDate null.
C12_ReturnOfDeletedBookNotFound ==
  [][\A d \in Devices :
       ( /\ pc[d] = "return_getBook"
         /\ pc'[d] # pc[d]
         /\ ~books[snap[d].tx.bookId].exists ) =>
           /\ txs[arg[d].txId].status = "BORROWED"
           /\ pc'[d] = "idle"
           /\ result'[d] = ErrBookNotFound
           /\ retId'[d] = 0
           /\ UNCHANGED store
           /\ txs'[arg[d].txId].status = "BORROWED"
           /\ txs'[arg[d].txId].returnDate = Null]_vars

\* a returnBook has ended NotFound although every LoanEntry it can have named
\* exists: the book of a BORROWED entry is gone
C12_Witness ==
  \E d \in ReturnDevices :
    /\ result[d] = ErrBookNotFound
    /\ nextTxId = 2
    /\ txs[1].status = "BORROWED"
    /\ txs[1].returnDate = Null
    /\ ~books[txs[1].bookId].exists
    /\ \A b \in BookIds : ~books[b].exists
    /\ nextBookId = 2

\* C18: a book comes into existence only as addBook writes it: with status
\* AVAILABLE, under the id that addBook returns, in a step that creates or
\* modifies no LoanEntry and no other book.
C18_AddBookStartsAvailable ==
  [][\A b \in BookIds :
       (~books[b].exists /\ books'[b].exists) =>
         /\ books'[b].status = "AVAILABLE"
         /\ b = nextBookId
         /\ nextBookId' = nextBookId + 1
         /\ \E d \in Devices : pc[d] = "idle" /\ result'[d] = Ok /\ retId'[d] = b
         /\ txs' = txs
         /\ nextTxId' = nextTxId
         /\ \A c \in BookIds \ {b} : books'[c] = books[c]]_vars

\* the second book has just been added, AVAILABLE, while the first one is on
\* loan: the first book and its entry are as the borrowBook left them
C18_Witness ==
  /\ books[2].exists
  /\ books[2].status = "AVAILABLE"
  /\ \E d \in Devices : result[d] = Ok /\ retId[d] = 2 /\ pc[d] = "idle"
  /\ \A t \in TxIds : txs[t].exists => txs[t].bookId = 1
  /\ books[1].exists
  /\ books[1].status = "BORROWED"
  /\ Outstanding(1) = {1}

\* C19: a book goes out of existence only in a deleteBook that succeeds,
\* whatever its status and whether or not a BORROWED LoanEntry references it;
\* the step removes that book only and leaves every LoanEntry as it is, so
\* the entries that reference the book stay in the store.
C19_DeleteBookRemovesOnlyTheBook ==
  [][\A b \in BookIds :
       (books[b].exists /\ ~books'[b].exists) =>
         /\ txs' = txs
         /\ nextTxId' = nextTxId
         /\ nextBookId' = nextBookId
         /\ \A c \in BookIds \ {b} : books'[c] = books[c]
         /\ \E d \in Devices : pc[d] = "idle" /\ pc'[d] = "idle" /\ result'[d] = Ok]_vars

\* a book was deleted while BORROWED with its LoanEntry outstanding, and the
\* other book was deleted while AVAILABLE
C19_Witness ==
  /\ nextBookId = 3
  /\ \A b \in BookIds : ~books[b].exists
  /\ \E t \in TxIds : txs[t].exists /\ txs[t].status = "BORROWED"
  /\ \E b \in BookIds : \A t \in TxIds : txs[t].exists => txs[t].bookId # b

\* C20: a LoanEntry that is BORROWED while the book it references does not
\* exist is the same in the next state, whatever step is taken: it is never
\* moved to RETURNED, never removed, and the book does not come back.
C20_OrphanedEntryStaysBorrowed ==
  [][\A t \in TxIds :
       (txs[t].exists /\ txs[t].status = "BORROWED" /\ ~books[txs[t].bookId].exists) =>
         /\ txs'[t] = txs[t]
         /\ ~books'[txs[t].bookId].exists]_vars

\* returnBook has been tried on an orphaned entry and has failed, and the
\* entry is still BORROWED
C20_Witness ==
  \E d \in ReturnDevices : \E t \in TxIds :
    /\ result[d] = ErrBookNotFound
    /\ txs[t].exists
    /\ txs[t].status = "BORROWED"
    /\ ~books[txs[t].bookId].exists
    /\ \E b \in BookIds : books[b].exists

\* how a step of the pending borrowBook or returnBook of device d may end the
\* call: with the response, exactly when the step has committed the writes, or
\* with the Error that the update function or the store has thrown, its
\* message as thrown; and only the step that ends the call writes
SurfacesOutcome(d) ==
  /\ (store' # store) => (Ends(d) /\ result'[d] = Ok)
  /\ Ends(d) =>
       /\ result'[d] = Ok <=> txs' # txs
       /\ result'[d] = Ok => pc[d] \in {"borrow_commit", "return_commit"}
       /\ (result'[d] # Ok /\ pc[d] = "borrow_get") =>
            result'[d] = IF books[arg[d].bookId].exists THEN ErrBorrowed
                                                        ELSE ErrBookNotFound
       /\ (result'[d] # Ok /\ pc[d] = "return_get") =>
            result'[d] = IF txs[arg[d].txId].exists THEN ErrReturned
                                                    ELSE ErrTxNotFound
       /\ (result'[d] # Ok /\ pc[d] = "return_getBook") => result'[d] = ErrBookNotFound
       /\ (result'[d] # Ok /\ pc[d] \in {"borrow_commit", "return_commit"}) =>
            result'[d] = ErrAborted

C13_RoundTrip ==
  LET t == retId["d1"] IN
    /\ \A d \in Devices : result[d] \in {Ok, Pending}
    /\ (pc["d1"] = "idle" /\ t \in TxIds /\ txs[t].status = "RETURNED") =>
         LET b == txs[t].bookId IN
           /\ books[b].exists
           /\ txs[t].userId = DeviceUser["d1"].uid
           /\ txs[t].returnDate # Null
           /\ \A x \in TxIds : (txs[x].exists /\ x < t) => txs[x].status = "RETURNED"
           /\ IF retId["d2"] = 0
                THEN /\ books[b].status = "AVAILABLE"
                     /\ Outstanding(b) = {}
                     /\ {x \in TxIds : txs[x].exists /\ x >= t} = {t}
                     /\ nextTxId = t + 1
                ELSE /\ retId["d2"] = t + 1
                     /\ books[b].status = "BORROWED"
                     /\ Outstanding(b) = {t + 1}
                     /\ txs[t + 1].userId = DeviceUser["d2"].uid
                     /\ {x \in TxIds : txs[x].exists /\ x >= t} = {t, t + 1}

\* the pair has run and the book has been borrowed again by the other member
C13_Witness ==
  /\ retId["d1"] = 1
  /\ result["d1"] = Ok
  /\ txs[1].status = "RETURNED"
  /\ txs[1].returnDate # Null
  /\ retId["d2"] = 2
  /\ result["d2"] = Ok
  /\ txs[2].status = "BORROWED"
  /\ txs[2].bookId = txs[1].bookId

\* borrowBook and returnBook run from beginning to end on the store as it is,
\* with nothing in between: the outcome and the store they leave
SequentialBorrow(d) ==
  LET b == arg[d].bookId IN
    IF ~books[b].exists
      THEN result'[d] = ErrBookNotFound /\ retId'[d] = 0 /\ UNCHANGED store
      ELSE IF books[b].status = "BORROWED"
        THEN result'[d] = ErrBorrowed /\ retId'[d] = 0 /\ UNCHANGED store
        ELSE /\ result'[d] = Ok
             /\ retId'[d] = nextTxId
             /\ BorrowApplied(d)
             /\ nextTxId' = nextTxId + 1
             /\ nextBookId' = nextBookId

SequentialReturn(d) ==
  LET t == arg[d].txId IN
    IF ~txs[t].exists
      THEN result'[d] = ErrTxNotFound /\ retId'[d] = 0 /\ UNCHANGED store
      ELSE IF txs[t].status = "RETURNED"
        THEN result'[d] = ErrReturned /\ retId'[d] = 0 /\ UNCHANGED store
        ELSE IF ~books[txs[t].bookId].exists
          THEN result'[d] = ErrBookNotFound /\ retId'[d] = 0 /\ UNCHANGED store
          ELSE /\ result'[d] = Ok
               /\ retId'[d] = t
               /\ ReturnApplied(d)
               /\ UNCHANGED <<nextBookId, nextTxId>>

\* C14: of concurrently issued borrowBook and returnBook calls, every call
\* takes effect in one step, the one that ends it: no earlier step of the call
\* writes, and the outcome of the call and the store after that step are those
\* of the whole call run alone on the store as it is before that step.  So the
\* final store and the outcome of every call are those of the sequential
\* execution of the calls in the order in which they end.
C14_CallsTakeEffectInSomeOrder ==
  [][\A d \in Devices :
       Steps(d) =>
         IF Ends(d)
           THEN IF pc[d] \in BorrowPcs THEN SequentialBorrow(d) ELSE SequentialReturn(d)
           ELSE UNCHANGED store]_vars

\* two returnBook calls of the same entry overlapped: both had read it
\* BORROWED, one has committed, and the other was refused at its commit and is
\* in its second attempt
C14_Witness ==
  \E w \in Devices : \E l \in Devices \ {w} :
    /\ result[w] = Ok
    /\ pc[l] = "return_get"
    /\ attempts[l] = 1
    /\ retId[w] = arg[l].txId
    /\ txs[arg[l].txId].status = "RETURNED"

PreconditionHoldsAfter(d) ==
  IF pc[d] \in BorrowPcs
    THEN /\ books'[arg[d].bookId].exists
         /\ books'[arg[d].bookId].status = "AVAILABLE"
    ELSE /\ txs'[arg[d].txId].exists
         /\ txs'[arg[d].txId].status = "BORROWED"
         /\ books'[txs'[arg[d].txId].bookId].exists

C21_NoUserBorrowsTwice ==
  \A t1 \in TxIds : \A t2 \in TxIds \ {t1} :
    (/\ txs[t1].exists /\ txs[t2].exists
     /\ txs[t1].status = "BORROWED" /\ txs[t2].status = "BORROWED"
     /\ txs[t1].userId = txs[t2].userId)
      => txs[t1].bookId # txs[t2].bookId

\* C22: the value useDebounce returns changes only to the value passed in at
\* that moment, and only when that value has been passed in unchanged for a
\* full delay, so a value replaced before its delay has elapsed is not
\* returned; and once the value passed in stops changing, the value returned
\* becomes equal to it and stays so.
C22_DebouncedFollowsStableValue ==
  /\ [][debouncedValue' # debouncedValue =>
          /\ debouncedValue' = value
          /\ stableFor = Delay]_vars
  /\ <>[](debouncedValue = value)

\* the value has changed more than once, the last one has stayed for the
\* delay and is the value returned, which is not the one of the first render
C22_Witness ==
  /\ changes >= 2
  /\ stableFor = Delay
  /\ debouncedValue = value
  /\ value = "ab"
  /\ \A v \in Inputs : timer[v] = NoTimer

\* C23: the handlers change the local view only after the call has
\* resolved.  While handleBorrow is under way the cached status and
\* hasBorrowed stay as they are, until borrowBook has resolved: then they
\* become BORROWED and true, and the entry the call has created is in the
\* store.  The list of ReturnBookScreen changes only when a fetch resolves or
\* when a returnBook has resolved: then its row alone is removed, and its
\* entry is RETURNED in the store.  When the call has thrown, status,
\* hasBorrowed and the list stay as they are.
C23_LocalViewFollowsResolvedCall ==
  [][/\ \A d \in Devices :
          ui[d].isBorrowing =>
            IF pc[d] = "idle" /\ result[d] = Ok /\ ~ui'[d].isBorrowing
              THEN /\ ui'[d].status = "BORROWED"
                   /\ ui'[d].hasBorrowed
                   /\ retId[d] \in TxIds
                   /\ txs[retId[d]].exists
                   /\ txs[retId[d]].bookId = ui[d].bookId
                   /\ txs[retId[d]].userId = DeviceUser[d].uid
              ELSE /\ ui'[d].status = ui[d].status
                   /\ ui'[d].hasBorrowed = ui[d].hasBorrowed
     /\ \A d \in Devices :
          (~ui[d].isBorrowing /\ ui'[d].isBorrowing) =>
            /\ ui'[d].status = ui[d].status
            /\ ui'[d].hasBorrowed = ui[d].hasBorrowed
     /\ transactions' # transactions =>
          \/ fetching' < fetching /\ transactions' = BorrowedTransactions
          \/ \E c \in Devices :
               /\ awaiting[c] # 0
               /\ awaiting'[c] = 0
               /\ pc[c] = "idle"
               /\ result[c] = Ok
               /\ retId[c] = awaiting[c]
               /\ txs[awaiting[c]].status = "RETURNED"
               /\ transactions' = transactions \ {awaiting[c]}
     /\ \A c \in Devices :
          (awaiting[c] # 0 /\ awaiting'[c] = 0 /\ result[c] # Ok) =>
            transactions' = transactions]_vars

\* a returnBook has thrown and its row is still in the list, and a
\* borrowBook has resolved and BookDetailScreen shows the book BORROWED
C23_Witness ==
  /\ result["d1"] \notin {Ok, Pending}
  /\ awaiting["d1"] = 0
  /\ processingId = 0
  /\ 1 \in transactions
  /\ result["d2"] = Ok
  /\ retId["d2"] \in TxIds
  /\ ~ui["d2"].isBorrowing
  /\ ui["d2"].status = "BORROWED"
  /\ ui["d2"].hasBorrowed

\* C24: on one device at most one borrowBook or returnBook call is pending
\* at any time.
\* Violated: ReturnBookScreen disables only the button of the row whose id is
\* processingId; Konfirmasi on a second row starts a second returnBook while
\* the first one is pending.
C24_OneCallInFlight ==
  Cardinality({c \in Devices : pc[c] \in BorrowPcs \cup ReturnPcs}) <= 1

\* C25: a call on book 1 and a call on book 2, each borrowBook or
\* returnBook, give the same outcome for each call and leave the same books
\* and the same entries whether the first runs before the second, the second
\* before the first, or both run concurrently (the ids that the store
\* generates for new entries aside).
C25_DifferentBooksIndependent ==
  (origin # NoOrigin /\ \A d \in Devices : pc[d] = "idle") =>
    /\ Canon(InOrder(origin, "d1", "d2")) = Canon(InOrder(origin, "d2", "d1"))
    /\ Canon([books |-> books, txs |-> txs, nextTxId |-> nextTxId, result |-> result])
         = Canon(InOrder(origin, "d1", "d2"))

\* a borrowBook of book 1 and a returnBook of an entry of book 2 have run
\* concurrently and both have succeeded
C25_Witness ==
  /\ origin # NoOrigin
  /\ \A d \in Devices : pc[d] = "idle" /\ result[d] = Ok
  /\ origin.calls["d1"].kind = "borrow"
  /\ origin.calls["d2"].kind = "return"
  /\ books[1].status = "BORROWED"
  /\ books[2].status = "AVAILABLE"

\* a step of updateProfile: the call starts, throws or settles
UpdateProfileStep == updating' # updating \/ updateResult' # updateResult

\* C27: no step of updateProfile changes isLoading of the auth context, so
\* AppNavigator never swaps the navigator for the loading screen because of
\* it; when updateDoc resolves the user keeps every field but name, which
\* becomes the new name; when the call fails (no user, updateDoc rejects)
\* user is left as it was and the call throws 'Gagal mengupdate profil...'.
C27_UpdateProfileKeepsLoadingAndUser ==
  [][UpdateProfileStep =>
       /\ authIsLoading' = authIsLoading
       /\ updateResult' \in {Pending, Ok, ErrUpdateProfile}
       /\ IF updateResult' = Ok
            THEN /\ updating # NoUpdate
                 /\ user' = IF user = NoUser THEN NoUser
                             ELSE [user EXCEPT !.name = updating.name]
            ELSE user' = user]_vars

C27_Witness ==
  /\ updateResult = Ok
  /\ updating = NoUpdate
  /\ user # NoUser
  /\ user.name \in NewNames
  /\ profiles[user.uid].name = user.name
  /\ ~authIsLoading

\* isAuthenticated of the context value: !!user
IsAuthenticated == user # NoUser

\* the login call and every callback of the listener have finished
AuthSettled == loginPc = "idle" /\ events = <<>> /\ callbacks = EmptyBag

\* C30: a login that authenticates an account whose profile document is
\* missing throws 'Profil pengguna tidak ditemukan...' and signs out, never
\* succeeds; and once the login call and every callback of the
\* onAuthStateChanged listener have finished, in whatever order they ran,
\* nobody is signed in, user is null, isAuthenticated is false and isLoading
\* is false.
C30_MissingProfileLoginEndsSignedOut ==
  /\ (loginPc = "idle" /\ loginArg # Null /\ ~profiles[loginArg].exists)
       => loginResult \in {ErrNoProfile, ErrWrongPassword}
  /\ (AuthSettled /\ loginResult = ErrNoProfile /\ ~profiles[loginArg].exists)
       => /\ session = Null
          /\ user = NoUser
          /\ ~IsAuthenticated
          /\ ~authIsLoading

C30_Witness ==
  /\ AuthSettled
  /\ loginResult = ErrNoProfile
  /\ ~profiles[loginArg].exists
  /\ user = NoUser
  /\ ~authIsLoading


\* C26: the entry that borrowBook creates carries the title the book has and
\* the name the borrower has at that commit; afterwards no step (updateBook
\* changing the title, updateProfile changing the name, returnBook) rewrites
\* bookTitle or userName of an entry, and no entry disappears.
C26_EntrySnapshotsTitleAndName ==
  [][\A t \in TxIds :
       /\ txs[t].exists =>
            /\ txs'[t].exists
            /\ txs'[t].bookTitle = txs[t].bookTitle
            /\ txs'[t].userName = txs[t].userName
       /\ (~txs[t].exists /\ txs'[t].exists) =>
            \E d \in Devices :
              /\ pc[d] = "borrow_commit"
              /\ pc'[d] = "idle"
              /\ txs'[t].bookTitle = books[arg[d].bookId].title
              /\ txs'[t].userName = UserName(d)]_vars

C26_Witness ==
  \E t \in TxIds :
    /\ txs[t].exists
    /\ txs[t].status = "RETURNED"
    /\ txs[t].bookTitle = "T1"
    /\ books[txs[t].bookId].title = "T2"
    /\ txs[t].userName = "Budi"
    /\ profiles[txs[t].userId].name = "Budi S."
    /\ user.name = "Budi S."

\* the admin's BookDetailScreen shows the opposite status of the same book
\* after a step that starts and ends no call: the toggle has been pressed and
\* updateBook has resolved
TogglePressed(d) ==
  /\ pc' = pc
  /\ ui[d].status # ""
  /\ ui'[d].bookId = ui[d].bookId
  /\ ui'[d].status = ToggledStatus(ui[d].status)

\* C28: the status toggle of the admin leaves every LoanEntry as it is (none
\* created, deleted or modified) and every other book too; of the book on the
\* screen it writes status and updatedAt only, and the status it writes is
\* the opposite of the status in the local copy of the screen, whatever the
\* store holds; and outside the loan transactions nothing but the toggle
\* changes a book.
C28_ToggleWritesOnlyTheBook ==
  [][/\ \A d \in ReturnDevices :
          TogglePressed(d) =>
            /\ txs' = txs
            /\ nextTxId' = nextTxId
            /\ books' = [books EXCEPT
                           ![ui[d].bookId].status = ToggledStatus(ui[d].status),
                           ![ui[d].bookId].updatedAt = ServerTime]
     /\ (pc' = pc /\ books' # books) => \E d \in ReturnDevices : TogglePressed(d)]_vars

C28_Witness ==
  \E d \in ReturnDevices, t \in TxIds :
    /\ ui[d].status = "AVAILABLE"
    /\ result[d] = Ok
    /\ books[ui[d].bookId].status = "AVAILABLE"
    /\ txs[t].exists
    /\ txs[t].bookId = ui[d].bookId
    /\ txs[t].status = "BORROWED"

\* C29: on a data screen, whenever a fetch or a pull to refresh is pending or
\* one of isLoading, isRefreshing is set, a state follows in which isLoading
\* and isRefreshing are both false, whether the fetches resolve or reject and
\* however they overlap; neither flag is set while no fetch is pending.
C29_FetchEndsLoadingAndRefreshing ==
  /\ []((isLoading \/ isRefreshing) => fetching > 0)
  /\ (isLoading \/ isRefreshing \/ fetching > 0) ~> (~isLoading /\ ~isRefreshing)

C29_Witness ==
  /\ fetching > 0
  /\ ~isLoading
  /\ ~isRefreshing

====
